---------------------------- MODULE Spec2Model ----------------------------
(***************************************************************************)
(* A model of DaoGovLite:                                                  *)
(*   - the wallet request interceptor and circuit breaker of               *)
(*     Frontend/src/hooks/use-web3.ts            (specification Spec),     *)
(*   - the call-rate tracker of Frontend/src/contexts/Web3Context.tsx      *)
(*                                                (SpecTracker),           *)
(*   - the governance contract Blockchain/DAOGovLite.sol (SpecDAO).        *)
(* Time is in milliseconds, as Date.now() gives it; the clock of the       *)
(* interceptor model advances by Tick.                                     *)
(***************************************************************************)
EXTENDS Integers, Sequences, FiniteSets, Bags, TLC

VARIABLES
    \* ---- use-web3.ts: module-level state
    now,                    \* Date.now()
    circuitBreakerActive,   \* line 5
    circuitRecoveryTimeout, \* line 6: the handle and whether its timer is still armed
    requestCache,           \* line 14
    pendingRequests,        \* line 15
    rpcCallCount,           \* line 26
    rpcCallsByType,         \* line 27
    lastRpcReset,           \* line 28
    monkeyPatchApplied,     \* line 29
    patchLayers,            \* times window.ethereum.request has been replaced (line 86)
    debouncedCalls,         \* line 38
    \* ---- the JavaScript runtime and the wallet provider
    timers,                 \* bag of setTimeout timers the interceptor armed
    inflight,               \* bag of unsettled originalRequest calls
    \* ---- React: the components that use useWeb3
    mounted,                \* hook instance -> is its component mounted
    rpcOverload,            \* hook instance -> its useState flag (line 220)
    checkDue,               \* hook instance -> when its monitor interval next fires
    \* ---- observation
    ev,                     \* what the last step did, as its caller saw it
    lastCached,             \* key -> the last result stored for it since the breaker was last Open
    burst,                  \* calls made at this instant, while Closed, that no monitor tick has seen
    nreq,                   \* Request steps made so far (bounded by MaxRequests)
    nmount,                 \* Mount steps made so far (bounded by MaxMounts)
    \* ---- Web3Context.tsx: GLOBAL_RPC_LIMITS and its caller
    trackerNow,             \* Date.now() as trackRPCCall reads it
    callHistory,            \* line 38
    backoffMs,              \* line 39, in units of 1/BackoffResolution ms
    isRateLimited,          \* line 93: what the last trackRPCCall returned
    ncalls,                 \* trackRPCCall invocations so far (bounded by MaxCalls)
    nwaits,                 \* pauses between invocations so far (bounded by MaxWaits)
    \* ---- GovernanceToken (part_020) and DAOGovLite.sol
    blockTimestamp,         \* block.timestamp
    balances,               \* address -> balanceOf, in whole tokens
    totalSupply,            \* in whole tokens
    proposalIdCounter,      \* DAOGovLite.sol line 19
    proposals,              \* line 39
    proposalIds,            \* line 42
    receipt,                \* the last transaction: its call and "ok" or its revert reason
    voteLog,                \* the <<proposal, voter>> pairs of the votes that succeeded
    ntokenops,              \* successful mints and transfers so far (bounded by MaxTokenOps)
    \* ---- Web3Context.tsx: the wallet connection of Web3Provider
    connectNow,             \* Date.now() as connectWallet reads it
    connectingRef,          \* line 267
    lastConnectionAttemptRef, \* line 268
    connectionAttemptRef,   \* line 263
    reactState,             \* connected, account, contracts: the values last set
    rendered,               \* ... and the values of the last render, which closures read
    flowPc,                 \* connectWallet call -> where it stands
    flowDue,                \* connectWallet call -> when its 5 s wait (line 793) ends
    nflows,                 \* connectWallet calls so far (bounded by MaxConnectCalls)
    requestsSent,           \* eth_requestAccounts requests sent so far
    \* ---- Web3Context.tsx: throttledCall
    responseCache,          \* line 23: cache key -> item
    throttled,              \* throttledCall invocation -> where it stands
    throttledEv,            \* what the last step returned to its caller
    \* ---- Web3Context.tsx: getProposals and getProposalById
    fetchNow,               \* Date.now() as the retry timers see it
    fetches,                \* invocation -> where it stands
    proposalsFetchingRef,   \* line 276
    proposalDetailsFetchingRef, \* line 277, for the one proposal id fetched here
    refreshInProgressRef,   \* line 284
    haveSuccessful,         \* successfulProposalsRef holds the proposal
    fetchEv,                \* what the last step returned to its caller
    \* ---- Web3Context.tsx: the proposal getProposalById builds, and voteOnProposal
    rawProposal,            \* what the contract's getProposal returned, and when
    standardProposal,       \* line 1573: the proposal the frontend made of it
    voteSubmitted           \* line 1838: what voteOnProposal did with the vote

webVars == <<now, circuitBreakerActive, circuitRecoveryTimeout, requestCache,
             pendingRequests, rpcCallCount, rpcCallsByType, lastRpcReset,
             monkeyPatchApplied, patchLayers, debouncedCalls, timers, inflight, mounted,
             rpcOverload, checkDue, ev, lastCached, burst, nreq, nmount>>

trackerVars == <<trackerNow, callHistory, backoffMs, isRateLimited, ncalls, nwaits>>

connectVars == <<connectNow, connectingRef, lastConnectionAttemptRef,
                 connectionAttemptRef, reactState, rendered, flowPc,
                 flowDue, nflows, requestsSent>>

throttleVars == <<responseCache, throttled, throttledEv>>

fetchVars == <<fetchNow, fetches, proposalsFetchingRef, proposalDetailsFetchingRef,
               refreshInProgressRef, haveSuccessful, fetchEv>>

statusVars == <<rawProposal, standardProposal, voteSubmitted>>

daoVars == <<blockTimestamp, balances, totalSupply, proposalIdCounter, proposals,
             proposalIds, receipt, voteLog, ntokenops>>

-----------------------------------------------------------------------------
(* Bounds of the model.  Inputs are plentiful during the first ShortTicks   *)
(* ticks of the clock; a behaviour that made at most LongRequests requests *)
(* and LongMounts mounts by then runs on to MaxTicks, far enough for the   *)
(* recovery timeout to fire.                                               *)

ShortTicks == 4         \* ticks during which the full input budget applies
MaxTicks == 17          \* the clock stops at MaxTicks * Tick
MaxRequests == 2        \* Request steps in one behaviour
LongRequests == 1       \* ... of a behaviour that runs past ShortTicks
MaxMounts == 2          \* Mount steps in one behaviour
LongMounts == 1         \* ... of a behaviour that runs past ShortTicks
BurstSize == 60         \* calls one caller loop makes in one task
MaxOutstanding == 2     \* armed timers plus unsettled provider calls
NumHooks == 1           \* components using useWeb3

(* Program constants of use-web3.ts *)

RESET_PERIOD == 10000
MONITOR_INTERVAL == 1000
SLOWDOWN_CALLS == 30
SLOWDOWN_WINDOW == 5000
BREAKER_CALLS == 50
BREAKER_WINDOW == 3000
RECOVERY_DELAY == 15000
THROTTLE_DELAY == 3000
OTHER_DELAY == 1000
DEBOUNCE_DELAY == 1500

\* The clock moves to the next multiple of Tick, or to the instant the next
\* timer is due when that comes first.
Tick == MONITOR_INTERVAL

MaxTime == MaxTicks * Tick

ShortTime == ShortTicks * Tick

RequestBudget(t) == IF t <= ShortTime THEN MaxRequests ELSE LongRequests

MountBudget(t) == IF t <= ShortTime THEN MaxMounts ELSE LongMounts

-----------------------------------------------------------------------------
(* Requests, keys and values *)

Methods == {"eth_accounts", "eth_call", "eth_sendTransaction"}

\* JSON.stringify(params): one parameter list per method is enough to
\* have equal and different keys.
Params == {"[]"}

\* cacheKey = `${method}-${JSON.stringify(params)}` (line 89)
Keys == Methods \X Params

MethodOf(key) == key[1]

\* JS null: what a swallowed error resolves to, and a result a provider
\* may give.
NULL == "null"

\* Results of the underlying provider: a truthy one and a falsy one.
Values == {"0xabc", NULL}

\* JavaScript truthiness of a result.
Truthy(v) == v # NULL

CACHE_TIMES(method) ==
    CASE method = "eth_accounts" -> 10000
      [] method = "eth_chainId"  -> 15000
      [] method = "eth_call"     -> 5000
      [] OTHER                   -> 3000

RPC_LIMITS(method) ==
    CASE method = "eth_accounts" -> 5
      [] method = "eth_chainId"  -> 5
      [] method = "eth_call"     -> 12
      [] OTHER                   -> 20

IsReadMethod(method) == method \in {"eth_accounts", "eth_chainId", "eth_call"}

\* key.includes('eth_accounts') || key.includes('eth_chainId') (line 242)
IsEssentialKey(key) == MethodOf(key) \in {"eth_accounts", "eth_chainId"}

NoEntry == [present |-> FALSE, value |-> NULL, timestamp |-> 0]

Entry(v, t) == [present |-> TRUE, value |-> v, timestamp |-> t]

EmptyCache == [k \in Keys |-> NoEntry]

\* A cache check that still serves an entry whose age equals the TTL
IsFreshInclusive(entry, method, t) ==
    entry.present /\ t - entry.timestamp <= CACHE_TIMES(method)

\* line 159: requestCache[cacheKey] && now - timestamp < cacheTime
IsFresh(entry, method, t) ==
    entry.present /\ t - entry.timestamp < CACHE_TIMES(method)

\* line 115: requestCache[cacheKey] && requestCache[cacheKey].value
HasUsableEntry(entry) == entry.present /\ Truthy(entry.value)

Hooks == 1..NumHooks

NoTimeout == [set |-> FALSE, armed |-> FALSE, due |-> 0, owner |-> 0]

NoEvent == [op |-> "none", key |-> <<"", "">>, kind |-> "", value |-> NULL]

RequestEvent(key, kind, v) ==
    [op |-> "request", key |-> key, kind |-> kind, value |-> v]

SettleEvent(key, path, outcome, v) ==
    [op |-> outcome, key |-> key, kind |-> path, value |-> v]

Timer(kind, key, due, cur) ==
    [kind |-> kind, key |-> key, due |-> due, cur |-> cur]

Call(key, path) == [key |-> key, path |-> path]

-----------------------------------------------------------------------------
(* window.ethereum.request, lines 86-198, as a function of the module state *)

InterceptorState ==
    [count |-> rpcCallCount, byType |-> rpcCallsByType, reset |-> lastRpcReset,
     cache |-> requestCache, pending |-> pendingRequests,
     debounced |-> debouncedCalls, timers |-> timers, inflight |-> inflight,
     ev |-> ev]

\* lines 92-109: count the call, then reset the counters when the period is over
CountCall(s, method, t) ==
    IF t - s.reset > RESET_PERIOD
    THEN [s EXCEPT !.count = 0,
                   !.byType = [m \in Methods |-> 0],
                   !.reset = t]
    ELSE [s EXCEPT !.count = @ + 1,
                   !.byType = [@ EXCEPT ![method] = @ + 1]]

\* lines 111-150: the breaker is Open
OpenPath(s, key, t) ==
    IF IsReadMethod(MethodOf(key))
    THEN IF HasUsableEntry(s.cache[key])
         THEN [s EXCEPT !.ev = RequestEvent(key, "cached", s.cache[key].value)]
         ELSE [s EXCEPT
                 !.timers = @ (+) SetToBag({Timer("throttle", key, t + THROTTLE_DELAY, FALSE)}),
                 !.ev = RequestEvent(key, "throttled", NULL)]
    ELSE [s EXCEPT
            !.timers = @ (+) SetToBag({Timer("delay", key, t + OTHER_DELAY, FALSE)}),
            !.ev = RequestEvent(key, "delayed", NULL)]

\* debounceRpcCall, lines 41-61: clear the timer the entry holds, arm a new one
DebounceRpcCall(s, key, t) ==
    LET cleared == [x \in {y \in BagToSet(s.timers) :
                              ~(y.kind = "debounce" /\ y.key = key /\ y.cur)}
                      |-> s.timers[x]]
        kept == IF s.debounced[key] # "none" THEN cleared ELSE s.timers
    IN  [s EXCEPT
           !.timers = kept (+) SetToBag({Timer("debounce", key, t + DEBOUNCE_DELAY, TRUE)}),
           !.debounced = [@ EXCEPT ![key] = "armed"],
           !.ev = RequestEvent(key, "debounced", NULL)]

\* lines 152-197: the breaker is Closed
ClosedPath(s, key, t) ==
    IF s.pending[key]
    THEN [s EXCEPT !.ev = RequestEvent(key, "pending", NULL)]
    ELSE IF IsFresh(s.cache[key], MethodOf(key), t)
    THEN [s EXCEPT !.ev = RequestEvent(key, "cached", s.cache[key].value)]
    ELSE IF s.byType[MethodOf(key)] > RPC_LIMITS(MethodOf(key))
    THEN DebounceRpcCall(s, key, t)
    ELSE [s EXCEPT
            !.inflight = @ (+) SetToBag({Call(key, "normal")}),
            !.pending = [@ EXCEPT ![key] = TRUE],
            !.ev = RequestEvent(key, "issued", NULL)]

RequestStep(s, key, t, open) ==
    LET c == CountCall(s, MethodOf(key), t)
    IN  IF open THEN OpenPath(c, key, t) ELSE ClosedPath(c, key, t)

\* n calls with the same arguments made in one task, each applied to the
\* state the one before left
RECURSIVE RequestLoop(_, _, _, _, _)
RequestLoop(s, key, t, open, n) ==
    IF n = 0 THEN s
    ELSE CHOOSE r \in {RequestLoop(s1, key, t, open, n - 1) :
                          s1 \in {RequestStep(s, key, t, open)}} : TRUE

Outstanding(s) == BagCardinality(s.timers) + BagCardinality(s.inflight)

\* n calls of window.ethereum.request with the same arguments in one task, by
\* a caller that makes at most `budget` such loops
RequestWithin(key, n, budget) ==
    /\ monkeyPatchApplied
    /\ nreq < budget
    /\ \E s \in {RequestLoop(InterceptorState, key, now, circuitBreakerActive, n)} :
           /\ Outstanding(s) <= MaxOutstanding
           /\ rpcCallCount' = s.count
           /\ rpcCallsByType' = s.byType
           /\ lastRpcReset' = s.reset
           /\ requestCache' = s.cache
           /\ pendingRequests' = s.pending
           /\ debouncedCalls' = s.debounced
           /\ timers' = s.timers
           /\ inflight' = s.inflight
           /\ ev' = s.ev
    /\ nreq' = nreq + 1
    /\ burst' = IF circuitBreakerActive THEN burst ELSE burst + n
    /\ UNCHANGED <<now, circuitBreakerActive, circuitRecoveryTimeout,
                   monkeyPatchApplied, patchLayers, mounted, rpcOverload, checkDue, lastCached,
                   nmount>>

Request(key, n) == RequestWithin(key, n, RequestBudget(now))

-----------------------------------------------------------------------------
(* Timers the interceptor armed, and the provider's answers *)

PathOf(kind) ==
    CASE kind = "throttle" -> "throttleRead"
      [] kind = "delay"    -> "delayOther"
      [] OTHER             -> "debounce"

\* A setTimeout callback of lines 48, 123 or 141 runs: it calls originalRequest.
FireTimer(t) ==
    /\ BagIn(t, timers)
    /\ t.due <= now
    /\ timers' = timers (-) SetToBag({t})
    /\ inflight' = inflight (+) SetToBag({Call(t.key, PathOf(t.kind))})
    /\ debouncedCalls' =
         IF t.kind = "debounce" /\ t.cur
         THEN [debouncedCalls EXCEPT ![t.key] = "fired"]
         ELSE debouncedCalls
    /\ ev' = NoEvent
    /\ UNCHANGED <<now, circuitBreakerActive, circuitRecoveryTimeout, requestCache,
                   pendingRequests, rpcCallCount, rpcCallsByType, lastRpcReset,
                   monkeyPatchApplied, patchLayers, mounted, rpcOverload, checkDue, lastCached,
                   burst, nreq, nmount>>

\* CachesResult without line 127: only the Closed paths store the result
CachesOnClosedPathsOnly(path) == path \in {"normal", "debounce"}

\* The paths whose .then stores the result (lines 127, 173, 183)
CachesResult(path) == path \in {"normal", "throttleRead", "debounce"}

\* The paths whose .catch resolves null instead of rejecting (lines 132, 146)
SwallowsError(path) == path \in {"throttleRead", "delayOther"}

\* delete debouncedCalls[key] (lines 52, 55): a timer armed since is no longer
\* the entry's.
ForgetDebounce(bag, key) ==
    LET un(x) == IF x.kind = "debounce" /\ x.key = key
                 THEN [x EXCEPT !.cur = FALSE] ELSE x
        img == {un(x) : x \in BagToSet(bag)}
    IN  [y \in img |-> BagCardinality([x \in {z \in BagToSet(bag) : un(z) = y}
                                          |-> bag[x]])]

\* AfterSettle without the finally of lines 190-193
AfterSettleNoFinally(c) ==
    /\ inflight' = inflight (-) SetToBag({c})
    /\ pendingRequests' = pendingRequests
    /\ debouncedCalls' =
         IF c.path = "debounce" THEN [debouncedCalls EXCEPT ![c.key] = "none"]
         ELSE debouncedCalls
    /\ timers' = IF c.path = "debounce" THEN ForgetDebounce(timers, c.key) ELSE timers

AfterSettle(c) ==
    /\ inflight' = inflight (-) SetToBag({c})
    /\ pendingRequests' =
         IF c.path = "normal" THEN [pendingRequests EXCEPT ![c.key] = FALSE]
         ELSE pendingRequests
    /\ debouncedCalls' =
         IF c.path = "debounce" THEN [debouncedCalls EXCEPT ![c.key] = "none"]
         ELSE debouncedCalls
    /\ timers' = IF c.path = "debounce" THEN ForgetDebounce(timers, c.key) ELSE timers

\* originalRequest resolves with v
SettleOk(c, v) ==
    /\ BagIn(c, inflight)
    /\ requestCache' =
         IF CachesResult(c.path)
         THEN [requestCache EXCEPT ![c.key] = Entry(v, now)]
         ELSE requestCache
    /\ lastCached' =
         IF CachesResult(c.path) /\ ~circuitBreakerActive
         THEN [lastCached EXCEPT ![c.key] = Entry(v, now)]
         ELSE lastCached
    /\ ev' = SettleEvent(c.key, c.path, "resolve", v)
    /\ AfterSettle(c)
    /\ UNCHANGED <<now, circuitBreakerActive, circuitRecoveryTimeout, rpcCallCount,
                   rpcCallsByType, lastRpcReset, monkeyPatchApplied, patchLayers, mounted,
                   rpcOverload, checkDue, burst, nreq, nmount>>

\* originalRequest rejects
SettleErr(c) ==
    /\ BagIn(c, inflight)
    /\ ev' = IF SwallowsError(c.path)
             THEN SettleEvent(c.key, c.path, "resolve", NULL)
             ELSE SettleEvent(c.key, c.path, "reject", NULL)
    /\ AfterSettle(c)
    /\ UNCHANGED <<now, circuitBreakerActive, circuitRecoveryTimeout, requestCache,
                   rpcCallCount, rpcCallsByType, lastRpcReset, monkeyPatchApplied,
                   patchLayers, mounted, rpcOverload, checkDue, lastCached, burst, nreq, nmount>>

-----------------------------------------------------------------------------
(* useWeb3, lines 218-302 *)

\* A hook that patches the provider on every mount
PatchNeededAlways(applied) == TRUE

\* lines 76 and 224, with a wallet in the page: patch unless it was done
PatchNeeded(applied) == ~applied

\* The component mounts: useState(false), then the effect of lines 223-276.
Mount(h) ==
    /\ ~mounted[h]
    /\ nmount < MountBudget(now)
    /\ nmount' = nmount + 1
    /\ mounted' = [mounted EXCEPT ![h] = TRUE]
    /\ rpcOverload' = [rpcOverload EXCEPT ![h] = FALSE]
    /\ monkeyPatchApplied' = (monkeyPatchApplied \/ PatchNeeded(monkeyPatchApplied))
    /\ patchLayers' = IF PatchNeeded(monkeyPatchApplied)
                      THEN patchLayers + 1
                      ELSE patchLayers
    /\ checkDue' = [checkDue EXCEPT ![h] = now + MONITOR_INTERVAL]
    /\ ev' = NoEvent
    /\ UNCHANGED <<now, circuitBreakerActive, circuitRecoveryTimeout, requestCache,
                   pendingRequests, rpcCallCount, rpcCallsByType, lastRpcReset,
                   debouncedCalls, timers, inflight, lastCached, burst, nreq>>

\* The effect's cleanup, lines 270-275
ClearOnUnmount(timeout) == [timeout EXCEPT !.armed = FALSE]

Unmount(h) ==
    /\ mounted[h]
    /\ mounted' = [mounted EXCEPT ![h] = FALSE]
    /\ rpcOverload' = [rpcOverload EXCEPT ![h] = FALSE]
    /\ checkDue' = [checkDue EXCEPT ![h] = 0]
    /\ circuitRecoveryTimeout' = ClearOnUnmount(circuitRecoveryTimeout)
    /\ ev' = NoEvent
    /\ UNCHANGED <<now, circuitBreakerActive, requestCache, pendingRequests,
                   rpcCallCount, rpcCallsByType, lastRpcReset, monkeyPatchApplied,
                   patchLayers, debouncedCalls, timers, inflight, lastCached, burst, nreq, nmount>>

\* line 235
SlowDownDue(t) ==
    /\ rpcCallCount > SLOWDOWN_CALLS
    /\ t - lastRpcReset < SLOWDOWN_WINDOW
    /\ ~circuitBreakerActive

\* line 248
BreakerDue(t) ==
    /\ rpcCallCount > BREAKER_CALLS
    /\ t - lastRpcReset < BREAKER_WINDOW

\* lines 240-245
SlowDownCache(cache) ==
    [k \in Keys |-> IF IsEssentialKey(k) THEN cache[k] ELSE NoEntry]

\* The monitor interval of lines 229-268 fires in instance h.
MonitorTick(h) ==
    /\ mounted[h]
    /\ checkDue[h] <= now
    /\ checkDue' = [checkDue EXCEPT ![h] = @ + MONITOR_INTERVAL]
    /\ IF SlowDownDue(now)
       THEN /\ requestCache' = SlowDownCache(requestCache)
            /\ IF BreakerDue(now)
               THEN /\ circuitBreakerActive' = TRUE
                    /\ lastCached' = EmptyCache
                    /\ rpcOverload' = [rpcOverload EXCEPT ![h] = TRUE]
                    /\ circuitRecoveryTimeout' =
                         [set |-> TRUE, armed |-> TRUE,
                          due |-> now + RECOVERY_DELAY, owner |-> h]
               ELSE UNCHANGED <<circuitBreakerActive, rpcOverload,
                                circuitRecoveryTimeout, lastCached>>
       ELSE UNCHANGED <<requestCache, circuitBreakerActive, rpcOverload,
                        circuitRecoveryTimeout, lastCached>>
    /\ ev' = NoEvent
    /\ burst' = 0
    /\ UNCHANGED <<now, pendingRequests, rpcCallCount, rpcCallsByType, lastRpcReset,
                   monkeyPatchApplied, patchLayers, debouncedCalls, timers, inflight, mounted,
                   nreq, nmount>>

\* The recovery timeout of lines 256-265 fires.
RecoveryFire ==
    /\ circuitRecoveryTimeout.armed
    /\ circuitRecoveryTimeout.due <= now
    /\ circuitRecoveryTimeout' = [circuitRecoveryTimeout EXCEPT !.armed = FALSE]
    /\ circuitBreakerActive' = FALSE
    /\ rpcOverload' = [rpcOverload EXCEPT ![circuitRecoveryTimeout.owner] = FALSE]
    /\ requestCache' = EmptyCache
    /\ ev' = NoEvent
    /\ burst' = 0
    /\ UNCHANGED <<now, pendingRequests, rpcCallCount, rpcCallsByType, lastRpcReset,
                   monkeyPatchApplied, patchLayers, debouncedCalls, timers, inflight, mounted,
                   checkDue, lastCached, nreq, nmount>>

\* resetCircuitBreaker, lines 286-300, called through instance h
ResetCircuitBreaker(h) ==
    /\ mounted[h]
    /\ rpcOverload[h]      \* App.tsx renders the button only then
    /\ circuitRecoveryTimeout' = [circuitRecoveryTimeout EXCEPT !.armed = FALSE]
    /\ circuitBreakerActive' = FALSE
    /\ rpcOverload' = [rpcOverload EXCEPT ![h] = FALSE]
    /\ requestCache' = EmptyCache
    /\ rpcCallCount' = 0
    /\ rpcCallsByType' = [m \in Methods |-> 0]
    /\ lastRpcReset' = now
    /\ ev' = NoEvent
    /\ burst' = 0
    /\ UNCHANGED <<now, pendingRequests, monkeyPatchApplied, patchLayers, debouncedCalls, timers,
                   inflight, mounted, checkDue, lastCached, nreq, nmount>>

\* Some timer callback is due: the event loop runs it before time moves on.
TimerDue ==
    \/ \E t \in BagToSet(timers) : t.due <= now
    \/ \E h \in Hooks : mounted[h] /\ checkDue[h] <= now
    \/ circuitRecoveryTimeout.armed /\ circuitRecoveryTimeout.due <= now

\* The instants at which some armed timer is due
DueTimes ==
    {t.due : t \in BagToSet(timers)}
      \cup {checkDue[h] : h \in {x \in Hooks : mounted[x]}}
      \cup (IF circuitRecoveryTimeout.armed THEN {circuitRecoveryTimeout.due} ELSE {})

NextInstant ==
    LET grid == (now \div Tick + 1) * Tick
        due == {d \in DueTimes : d > now /\ d < grid}
    IN  IF due = {} THEN grid ELSE CHOOSE d \in due : \A e \in due : d <= e

Advance ==
    /\ ~TimerDue
    /\ now < MaxTime
    /\ NextInstant > ShortTime => nreq <= LongRequests /\ nmount <= LongMounts
    /\ now' = NextInstant
    /\ ev' = NoEvent
    /\ burst' = 0
    /\ UNCHANGED <<circuitBreakerActive, circuitRecoveryTimeout, requestCache,
                   pendingRequests, rpcCallCount, rpcCallsByType, lastRpcReset,
                   monkeyPatchApplied, patchLayers, debouncedCalls, timers, inflight, mounted,
                   rpcOverload, checkDue, lastCached, nreq, nmount>>

-----------------------------------------------------------------------------
(* Web3Context.tsx: the adaptive rate tracker                               *)

MaxCalls == 112           \* trackRPCCall invocations in one behaviour
MaxWaits == 1             \* pauses between invocations in one behaviour
BackoffResolution == 1000 \* backoffMs is held in 1/BackoffResolution ms, products rounded down

\* Web3Context.tsx, GLOBAL_RPC_LIMITS and the literals of trackRPCCall
maxCallsPerSecond == 10
maxCallsPerMinute == 100
INITIAL_BACKOFF == 1000
MINUTE_WINDOW == 60000
SECOND_WINDOW == 1000
RATE_BACKOFF_CAP == 10000
SEVERE_BACKOFF_CAP == 30000
MIN_BACKOFF == 500

\* The pauses a caller can make between two invocations
Waits == {SECOND_WINDOW, MINUTE_WINDOW}

Min(a, b) == IF a <= b THEN a ELSE b

Max(a, b) == IF a >= b THEN a ELSE b

\* A number of milliseconds in the unit backoffMs is held in
Ms(n) == n * BackoffResolution

\* Younger with <= for <: a timestamp exactly one window old is kept
YoungerInclusive(history, t, window) ==
    SelectSeq(history, LAMBDA time : t - time <= window)

\* lines 48-50 and 53-55: history.filter(time => now - time < window)
Younger(history, t, window) == SelectSeq(history, LAMBDA time : t - time < window)

\* A severe raise without the upper clamp
RaiseSevereUnclamped(b) == b * 2

\* line 61: Math.min(backoffMs * 1.5, 10000)
RaiseRate(b) == Min((b * 3) \div 2, Ms(RATE_BACKOFF_CAP))

\* line 66: Math.min(backoffMs * 2, 30000)
RaiseSevere(b) == Min(b * 2, Ms(SEVERE_BACKOFF_CAP))

\* line 72: Math.max(backoffMs * 0.9, 500)
Decay(b) == Max((b * 9) \div 10, Ms(MIN_BACKOFF))

\* lines 43-76: the history, the backoff and the value returned by one call
\* made at time t
TrackOutcome(history, backoff, t) ==
    LET kept == Younger(Append(history, t), t, MINUTE_WINDOW)
        callsLastSecond == Len(Younger(kept, t, SECOND_WINDOW))
        callsLastMinute == Len(kept)
    IN  IF callsLastSecond > maxCallsPerSecond
        THEN [callHistory |-> kept, backoffMs |-> RaiseRate(backoff), returned |-> TRUE]
        ELSE IF callsLastMinute > maxCallsPerMinute
        THEN [callHistory |-> kept, backoffMs |-> RaiseSevere(backoff), returned |-> TRUE]
        ELSE IF /\ callsLastSecond * 2 < maxCallsPerSecond
                /\ callsLastMinute * 2 < maxCallsPerMinute
        THEN [callHistory |-> kept, backoffMs |-> Decay(backoff), returned |-> FALSE]
        ELSE [callHistory |-> kept, backoffMs |-> backoff, returned |-> FALSE]

\* throttledCall line 93: const isRateLimited = trackRPCCall()
TrackRPCCall ==
    /\ ncalls < MaxCalls
    /\ \E r \in {TrackOutcome(callHistory, backoffMs, trackerNow)} :
         /\ callHistory' = r.callHistory
         /\ backoffMs' = r.backoffMs
         /\ isRateLimited' = r.returned
    /\ ncalls' = ncalls + 1
    /\ UNCHANGED <<trackerNow, nwaits>>

\* Time passes between two invocations
Wait(d) ==
    /\ nwaits < MaxWaits
    /\ trackerNow' = trackerNow + d
    /\ nwaits' = nwaits + 1
    /\ UNCHANGED <<callHistory, backoffMs, isRateLimited, ncalls>>

InitTracker ==
    /\ trackerNow = 0
    /\ callHistory = <<>>
    /\ backoffMs = Ms(INITIAL_BACKOFF)
    /\ isRateLimited = FALSE
    /\ ncalls = 0
    /\ nwaits = 0

-----------------------------------------------------------------------------
(* Web3Context.tsx: throttledCall, lines 79-122                             *)

MaxThrottled == 2         \* throttledCall invocations running at once
MaxTracked == 12          \* throttledCall invocations that reach trackRPCCall

\* line 83
DEFAULT_CACHE_DURATION == 60000

CacheKeys == {"proposals"}

\* What fn resolves with
Data == {"old", "new"}

ThrottledCalls == 1..MaxThrottled

NoItem == [present |-> FALSE, data |-> "", timestamp |-> 0]

Item(d, t) == [present |-> TRUE, data |-> d, timestamp |-> t]

\* An invocation: not running, awaiting line 103 or awaiting fn (line 107);
\* cacheItem of line 85, forceRefresh, isRateLimited of line 93, and the
\* number of times it invoked fn
IdleCall ==
    [pc |-> "idle", key |-> "", cacheItem |-> NoItem, forceRefresh |-> FALSE,
     isRateLimited |-> FALSE, due |-> 0, fnCalls |-> 0]

NoReturn ==
    [op |-> "none", failed |-> FALSE, thrown |-> FALSE, data |-> "",
     cacheItem |-> NoItem, forceRefresh |-> FALSE, isRateLimited |-> FALSE,
     fnCalls |-> 0]

\* The invocation c returns data (or throws) to its caller
Return(c, failed, thrown, data) ==
    [op |-> "return", failed |-> failed, thrown |-> thrown, data |-> data,
     cacheItem |-> c.cacheItem, forceRefresh |-> c.forceRefresh,
     isRateLimited |-> c.isRateLimited, fnCalls |-> c.fnCalls]

\* line 88
UseCache(cacheItem, forceRefresh, cacheDuration, t) ==
    ~forceRefresh /\ cacheItem.present /\ t - cacheItem.timestamp < cacheDuration

\* The catch block without its fallback: every failure is rethrown
ErrorAlwaysThrown(cacheItem) == [thrown |-> TRUE, data |-> ""]

\* lines 114-121: the catch block
OnError(cacheItem) ==
    IF cacheItem.present
    THEN [thrown |-> FALSE, data |-> cacheItem.data]
    ELSE [thrown |-> TRUE, data |-> ""]

\* lines 79-107: throttledCall up to its first await
ThrottledCall(i, key, forceRefresh, cacheDuration) ==
    /\ throttled[i].pc = "idle"
    /\ LET cacheItem == responseCache[key]
           c == [IdleCall EXCEPT !.key = key, !.cacheItem = cacheItem,
                                 !.forceRefresh = forceRefresh]
       IN  IF UseCache(cacheItem, forceRefresh, cacheDuration, trackerNow)
           THEN /\ throttledEv' = Return(c, FALSE, FALSE, cacheItem.data)
                /\ UNCHANGED <<throttled, callHistory, backoffMs, isRateLimited, ncalls>>
           ELSE /\ ncalls < MaxTracked
                /\ ncalls' = ncalls + 1
                /\ \E r \in {TrackOutcome(callHistory, backoffMs, trackerNow)} :
                     /\ callHistory' = r.callHistory
                     /\ backoffMs' = r.backoffMs
                     /\ isRateLimited' = r.returned
                     /\ IF r.returned /\ cacheItem.present
                        THEN /\ throttledEv' =
                                  Return([c EXCEPT !.isRateLimited = TRUE],
                                         FALSE, FALSE, cacheItem.data)
                             /\ UNCHANGED throttled
                        ELSE IF r.returned
                        THEN /\ throttled' = [throttled EXCEPT ![i] =
                                  [c EXCEPT !.pc = "backoff", !.isRateLimited = TRUE,
                                            !.due = Ms(trackerNow) + r.backoffMs]]
                             /\ throttledEv' = NoReturn
                        ELSE /\ throttled' = [throttled EXCEPT ![i] =
                                  [c EXCEPT !.pc = "calling", !.fnCalls = @ + 1]]
                             /\ throttledEv' = NoReturn
    /\ UNCHANGED <<trackerNow, nwaits, responseCache>>

\* line 103: the backoff timer of invocation i fires; fn is invoked
BackoffOver(i) ==
    /\ throttled[i].pc = "backoff"
    /\ Ms(trackerNow) >= throttled[i].due
    /\ throttled' = [throttled EXCEPT ![i].pc = "calling", ![i].fnCalls = @ + 1]
    /\ throttledEv' = NoReturn
    /\ UNCHANGED <<trackerVars, responseCache>>

\* lines 107-113: fn resolves with d
FnResolve(i, d) ==
    /\ throttled[i].pc = "calling"
    /\ responseCache' = [responseCache EXCEPT ![throttled[i].key] = Item(d, trackerNow)]
    /\ throttledEv' = Return(throttled[i], FALSE, FALSE, d)
    /\ throttled' = [throttled EXCEPT ![i] = IdleCall]
    /\ UNCHANGED trackerVars

\* lines 114-121: fn rejects
FnReject(i) ==
    /\ throttled[i].pc = "calling"
    /\ \E o \in {OnError(throttled[i].cacheItem)} :
          throttledEv' = Return(throttled[i], TRUE, o.thrown, o.data)
    /\ throttled' = [throttled EXCEPT ![i] = IdleCall]
    /\ UNCHANGED <<trackerVars, responseCache>>

\* responseCache.clear() of lines 910, 1650, 1911 and 2317
ClearResponseCache ==
    /\ \E k \in CacheKeys : responseCache[k].present
    /\ responseCache' = [k \in CacheKeys |-> NoItem]
    /\ throttledEv' = NoReturn
    /\ UNCHANGED <<trackerVars, throttled>>

\* Time passes while invocations wait
ThrottledWait(d) ==
    /\ Wait(d)
    /\ throttledEv' = NoReturn
    /\ UNCHANGED <<responseCache, throttled>>

\* line 23, and no invocation running
InitThrottle ==
    /\ responseCache = [k \in CacheKeys |-> NoItem]
    /\ throttled = [i \in ThrottledCalls |-> IdleCall]
    /\ throttledEv = NoReturn

-----------------------------------------------------------------------------
(* Web3Context.tsx: getProposals (921-1207) and getProposalById (1210-1624) *)

MaxFetches == 2           \* invocations running at once
MaxFetchTicks == 7        \* the clock of the retry timers stops here
FetchTick == 1000         \* its step, ms

\* lines 999 and 1264, and the base of the delay of lines 1176 and 1347
MAX_RETRIES == 2
RETRY_BASE_DELAY == 1000

FetchSlots == 1..MaxFetches

FetchKinds == {"list", "detail"}

\* An invocation: not running, polling refreshInProgressRef (932-940), in an
\* attempt of its retry function, or waiting before the next attempt
IdleFetch ==
    [kind |-> "", pc |-> "idle", fetching |-> FALSE, retryCount |-> 0,
     attempts |-> 0, failedAt |-> 0, due |-> 0]

NoFetchReturn ==
    [op |-> "none", kind |-> "", fetching |-> FALSE, attempts |-> 0, result |-> ""]

\* The invocation f returns to its caller
FetchReturn(f, result) ==
    [op |-> "return", kind |-> f.kind, fetching |-> f.fetching,
     attempts |-> f.attempts, result |-> result]

RECURSIVE Pow2(_)
Pow2(n) == IF n = 0 THEN 1 ELSE 2 * Pow2(n - 1)

\* The retry test without its bound
MayRetryAlways(retryCount) == TRUE

\* lines 1175 and 1345
MayRetry(retryCount) == retryCount < MAX_RETRIES

\* lines 1176 and 1347: Math.pow(2, retryCount) * 1000
RetryDelay(retryCount) == Pow2(retryCount) * RETRY_BASE_DELAY

\* Does an attempt reach the catch of its retry function when the provider
\* rejects every call: getProposalWithRetry throws once its five methods have
\* failed (1342); getProposalsWithRetry catches each failure and falls back to
\* the ids 1..20 (1008-1079)
AttemptThrows(kind, providerFails) == kind = "detail" /\ providerFails

\* The finally blocks of lines 1201-1206 and 1617-1623, and lines 972-973, 1239
ClearFlags(kind) ==
    IF kind = "list"
    THEN /\ proposalsFetchingRef' = FALSE
         /\ refreshInProgressRef' = FALSE
         /\ UNCHANGED proposalDetailsFetchingRef
    ELSE /\ proposalDetailsFetchingRef' = FALSE
         /\ UNCHANGED <<proposalsFetchingRef, refreshInProgressRef>>

\* lines 943-1196 and 1212-1392: the invocation in slot i, from its guards to
\* the first attempt.  recent: refreshed within 10 s, or the memory cache of
\* line 1220 is fresh; hasContract: daoContract is set; cached: responseCache
\* holds a fresh entry for the key
EnterFetch(i, kind, forceRefresh, recent, hasContract, cached) ==
    LET f == [IdleFetch EXCEPT !.kind = kind]
        skip == IF kind = "list"
                THEN ~forceRefresh /\ haveSuccessful /\ (proposalsFetchingRef \/ recent)
                ELSE proposalDetailsFetchingRef \/ (haveSuccessful /\ recent)
    IN  IF skip
        THEN /\ fetchEv' = FetchReturn(f, "early")
             /\ fetches' = [fetches EXCEPT ![i] = IdleFetch]
             /\ UNCHANGED <<proposalsFetchingRef, proposalDetailsFetchingRef,
                            refreshInProgressRef>>
        ELSE IF ~hasContract \/ cached
        THEN /\ fetchEv' = FetchReturn([f EXCEPT !.fetching = TRUE],
                                       IF hasContract THEN "value" ELSE "null")
             /\ fetches' = [fetches EXCEPT ![i] = IdleFetch]
             /\ ClearFlags(kind)
        ELSE /\ fetchEv' = NoFetchReturn
             /\ fetches' = [fetches EXCEPT ![i] =
                   [f EXCEPT !.pc = "attempt", !.fetching = TRUE, !.attempts = 1]]
             /\ IF kind = "list"
                THEN /\ proposalsFetchingRef' = TRUE
                     /\ refreshInProgressRef' = TRUE
                     /\ UNCHANGED proposalDetailsFetchingRef
                ELSE /\ proposalDetailsFetchingRef' = TRUE
                     /\ UNCHANGED <<proposalsFetchingRef, refreshInProgressRef>>

\* getProposals / getProposalById is called
StartFetch(i, kind, forceRefresh, recent, hasContract, cached) ==
    /\ fetches[i].pc = "idle"
    /\ IF kind = "list" /\ refreshInProgressRef /\ ~forceRefresh
       THEN /\ fetchEv' = IF haveSuccessful
                           THEN FetchReturn([IdleFetch EXCEPT !.kind = kind], "early")
                           ELSE NoFetchReturn
            /\ fetches' = IF haveSuccessful THEN fetches
                          ELSE [fetches EXCEPT ![i] =
                                  [IdleFetch EXCEPT !.kind = kind, !.pc = "polling"]]
            /\ UNCHANGED <<proposalsFetchingRef, proposalDetailsFetchingRef,
                           refreshInProgressRef>>
       ELSE EnterFetch(i, kind, forceRefresh, recent, hasContract, cached)
    /\ UNCHANGED <<fetchNow, haveSuccessful>>

\* lines 934-939: the poll sees refreshInProgressRef cleared
PollDone(i, recent, hasContract, cached) ==
    /\ fetches[i].pc = "polling"
    /\ ~refreshInProgressRef
    /\ EnterFetch(i, "list", FALSE, recent, hasContract, cached)
    /\ UNCHANGED <<fetchNow, haveSuccessful>>

\* An attempt of the retry function ends, the provider having failed or not
AttemptEnds(i, providerFails) ==
    LET f == fetches[i]
    IN  /\ f.pc = "attempt"
        /\ IF ~AttemptThrows(f.kind, providerFails)
           THEN /\ fetchEv' = FetchReturn(f, "value")
                /\ fetches' = [fetches EXCEPT ![i] = IdleFetch]
                /\ haveSuccessful' = (haveSuccessful \/ f.kind = "detail")
                /\ ClearFlags(f.kind)
           ELSE IF MayRetry(f.retryCount)
           THEN /\ fetchEv' = NoFetchReturn
                /\ fetches' = [fetches EXCEPT ![i] =
                      [f EXCEPT !.pc = "wait", !.failedAt = fetchNow,
                                !.due = fetchNow + RetryDelay(f.retryCount)]]
                /\ UNCHANGED <<proposalsFetchingRef, proposalDetailsFetchingRef,
                               refreshInProgressRef, haveSuccessful>>
           ELSE /\ fetchEv' = FetchReturn(f, IF f.kind = "detail" THEN "null" ELSE "thrown")
                /\ fetches' = [fetches EXCEPT ![i] = IdleFetch]
                /\ ClearFlags(f.kind)
                /\ UNCHANGED haveSuccessful
        /\ UNCHANGED fetchNow

\* lines 1178-1179 and 1349-1350: the timer fires, the next attempt starts
RetryFire(i) ==
    /\ fetches[i].pc = "wait"
    /\ fetchNow >= fetches[i].due
    /\ fetches' = [fetches EXCEPT ![i].pc = "attempt", ![i].retryCount = @ + 1,
                                  ![i].attempts = @ + 1]
    /\ fetchEv' = NoFetchReturn
    /\ UNCHANGED <<fetchNow, proposalsFetchingRef, proposalDetailsFetchingRef,
                   refreshInProgressRef, haveSuccessful>>

\* prefetchCommonData, lines 2357-2362 and 2417-2419: it takes
\* refreshInProgressRef (on: TRUE) and releases it in finally (on: FALSE)
Prefetch(on) ==
    /\ refreshInProgressRef = ~on
    /\ refreshInProgressRef' = on
    /\ fetchEv' = NoFetchReturn
    /\ UNCHANGED <<fetchNow, fetches, proposalsFetchingRef,
                   proposalDetailsFetchingRef, haveSuccessful>>

AdvanceFetch ==
    /\ fetchNow < MaxFetchTicks * FetchTick
    /\ fetchNow' = fetchNow + FetchTick
    /\ fetchEv' = NoFetchReturn
    /\ UNCHANGED <<fetches, proposalsFetchingRef, proposalDetailsFetchingRef,
                   refreshInProgressRef, haveSuccessful>>

\* lines 276-284
InitFetch ==
    /\ fetchNow = 0
    /\ fetches = [i \in FetchSlots |-> IdleFetch]
    /\ proposalsFetchingRef = FALSE
    /\ proposalDetailsFetchingRef = FALSE
    /\ refreshInProgressRef = FALSE
    /\ haveSuccessful = FALSE
    /\ fetchEv = NoFetchReturn

-----------------------------------------------------------------------------
(* GovernanceToken (part_020) and DAOGovLite.sol.  Token amounts are in    *)
(* whole tokens (10**18 base units each).                                   *)

MaxProposals == 1         \* proposals created in one behaviour
MaxBlockTime == 3         \* block.timestamp stops here
MaxDuration == 1          \* longest voting period a caller asks for
MaxTokenOps == 1          \* successful mints and transfers in one behaviour
MaxIds == 2               \* proposals created where only their ids are followed

\* DAOGovLite.sol line 22, part_020 lines 13 and 21
PROPOSAL_THRESHOLD == 1000
MAX_SUPPLY == 1000000
INITIAL_SUPPLY == 100000

ZeroAddress == "0x0"

Deployer == "deployer"

Addresses == {Deployer, "alice"}

\* The amounts callers mint and transfer: below and at the proposal threshold,
\* all that the cap leaves after construction, and one token more
Amounts == {PROPOSAL_THRESHOLD - 1, PROPOSAL_THRESHOLD, MAX_SUPPLY - INITIAL_SUPPLY,
            MAX_SUPPLY - INITIAL_SUPPLY + 1}

Titles == {"", "title"}

Descriptions == {"", "description"}

Durations == 0..MaxDuration

\* The ids callers pass: 0, the ids that can exist, and one past them
IdInputs == 0..(MaxProposals + 1)

OK == "ok"

\* A transaction as its sender saw it
Receipt(fn, sender, id, status) ==
    [fn |-> fn, sender |-> sender, id |-> id, status |-> status]

NoReceipt == Receipt("none", ZeroAddress, 0, OK)

\* The zero value of a Proposal in storage
NoProposal ==
    [proposer |-> ZeroAddress, title |-> "", description |-> "",
     startTime |-> 0, endTime |-> 0, forVotes |-> 0, againstVotes |-> 0,
     executed |-> FALSE, canceled |-> FALSE,
     hasVoted |-> [a \in Addresses |-> FALSE]]

\* A require failed: the transaction changes nothing
Revert(fn, sender, id, reason) ==
    /\ receipt' = Receipt(fn, sender, id, reason)
    /\ UNCHANGED <<blockTimestamp, balances, totalSupply, proposalIdCounter,
                   proposals, proposalIds, voteLog, ntokenops>>

\* part_020 line 29: a mint transaction, with its arguments
MintCall(sender, to, amount, status) ==
    [fn |-> "mint", sender |-> sender, id |-> 0, status |-> status,
     to |-> to, amount |-> amount]

\* A cap that looks at the amount minted and not at the supply so far
WithinCapIgnoringSupply(supply, amount) == amount <= MAX_SUPPLY

\* part_020 line 30: the require of mint
WithinCap(supply, amount) == supply + amount <= MAX_SUPPLY

\* part_020 lines 29-32: mint, onlyOwner
Mint(sender, to, amount) ==
    IF sender # Deployer
    THEN /\ receipt' = MintCall(sender, to, amount, "Ownable: caller is not the owner")
         /\ UNCHANGED <<blockTimestamp, balances, totalSupply, proposalIdCounter,
                        proposals, proposalIds, voteLog, ntokenops>>
    ELSE IF ~WithinCap(totalSupply, amount)
    THEN /\ receipt' = MintCall(sender, to, amount, "Exceeds maximum token supply")
         /\ UNCHANGED <<blockTimestamp, balances, totalSupply, proposalIdCounter,
                        proposals, proposalIds, voteLog, ntokenops>>
    ELSE /\ ntokenops < MaxTokenOps
         /\ balances' = [balances EXCEPT ![to] = @ + amount]
         /\ totalSupply' = totalSupply + amount
         /\ receipt' = MintCall(sender, to, amount, OK)
         /\ ntokenops' = ntokenops + 1
         /\ UNCHANGED <<blockTimestamp, proposalIdCounter, proposals, proposalIds,
                        voteLog>>

\* part_020 line 11: the transfer GovernanceToken inherits from ERC20
Transfer(sender, to, amount) ==
    IF balances[sender] < amount
    THEN Revert("transfer", sender, 0, "ERC20: transfer amount exceeds balance")
    ELSE /\ ntokenops < MaxTokenOps
         /\ sender # to
         /\ balances' = [balances EXCEPT ![sender] = @ - amount, ![to] = @ + amount]
         /\ receipt' = Receipt("transfer", sender, 0, OK)
         /\ ntokenops' = ntokenops + 1
         /\ UNCHANGED <<blockTimestamp, totalSupply, proposalIdCounter, proposals,
                        proposalIds, voteLog>>

\* An existence check that takes 0 for an id
ProposalExistsFromZero(proposalId) == proposalId >= 0 /\ proposalId < proposalIdCounter

\* DAOGovLite.sol lines 277-279
ProposalExists(proposalId) == proposalId > 0 /\ proposalId < proposalIdCounter

\* lines 89-93: a createProposal transaction, with its arguments and the id
\* it returned (0 when it reverted)
CreateCall(sender, id, status, title, description, duration) ==
    [fn |-> "createProposal", sender |-> sender, id |-> id, status |-> status,
     title |-> title, description |-> description, duration |-> duration]

\* A createProposal that accepts any token holder
CreateProposalCheckAnyHolder(sender, title, description, duration) ==
    IF ~(balances[sender] > 0)
    THEN "Insufficient tokens to create proposal"
    ELSE IF ~(Len(title) > 0) THEN "Title cannot be empty"
    ELSE IF ~(Len(description) > 0) THEN "Description cannot be empty"
    ELSE IF ~(duration > 0) THEN "Duration must be positive"
    ELSE OK

\* lines 94-100: the first require of createProposal that fails
CreateProposalCheck(sender, title, description, duration) ==
    IF ~(balances[sender] >= PROPOSAL_THRESHOLD)
    THEN "Insufficient tokens to create proposal"
    ELSE IF ~(Len(title) > 0) THEN "Title cannot be empty"
    ELSE IF ~(Len(description) > 0) THEN "Description cannot be empty"
    ELSE IF ~(duration > 0) THEN "Duration must be positive"
    ELSE OK

\* lines 104-113
NewProposal(sender, title, description, duration) ==
    [NoProposal EXCEPT !.proposer = sender, !.title = title,
                       !.description = description,
                       !.startTime = blockTimestamp,
                       !.endTime = blockTimestamp + duration]

\* lines 89-129, for callers that create at most cap proposals
CreateProposalWithin(sender, title, description, duration, cap) ==
    LET status == CreateProposalCheck(sender, title, description, duration)
    IN  IF status # OK
        THEN /\ receipt' = CreateCall(sender, 0, status, title, description, duration)
             /\ UNCHANGED <<blockTimestamp, balances, totalSupply, proposalIdCounter,
                            proposals, proposalIds, voteLog, ntokenops>>
        ELSE /\ proposalIdCounter <= cap
             /\ proposals' = [proposals EXCEPT ![proposalIdCounter] =
                                 [NewProposal(sender, title, description, duration)
                                     EXCEPT !.hasVoted = proposals[proposalIdCounter].hasVoted]]
             /\ proposalIds' = Append(proposalIds, proposalIdCounter)
             /\ proposalIdCounter' = proposalIdCounter + 1
             /\ receipt' = CreateCall(sender, proposalIdCounter, OK, title,
                                      description, duration)
             /\ UNCHANGED <<blockTimestamp, balances, totalSupply, voteLog, ntokenops>>

\* lines 89-129
CreateProposal(sender, title, description, duration) ==
    CreateProposalWithin(sender, title, description, duration, MaxProposals)

\* line 156: a vote that succeeded, with what its VoteCast event carries
VoteCast(proposalId, voter, support, votes) ==
    [fn |-> "vote", sender |-> voter, id |-> proposalId, status |-> OK,
     support |-> support, votes |-> votes]

\* A vote that does not look at the canceled flag
VoteCheckIgnoringCancel(sender, proposalId) ==
    IF ~ProposalExists(proposalId) THEN "Proposal does not exist"
    ELSE IF proposals[proposalId].hasVoted[sender] THEN "Already voted"
    ELSE IF ~(blockTimestamp <= proposals[proposalId].endTime) THEN "Voting period ended"
    ELSE IF proposals[proposalId].executed THEN "Proposal already executed"
    ELSE IF ~(balances[sender] > 0) THEN "No voting power"
    ELSE OK

\* lines 137-144: the first require of vote that fails
VoteCheck(sender, proposalId) ==
    IF ~ProposalExists(proposalId) THEN "Proposal does not exist"
    ELSE IF proposals[proposalId].hasVoted[sender] THEN "Already voted"
    ELSE IF ~(blockTimestamp <= proposals[proposalId].endTime) THEN "Voting period ended"
    ELSE IF proposals[proposalId].canceled THEN "Proposal canceled"
    ELSE IF proposals[proposalId].executed THEN "Proposal already executed"
    ELSE IF ~(balances[sender] > 0) THEN "No voting power"
    ELSE OK

\* A vote that is tallied but not recorded against its voter
CastVoteUnrecorded(proposal, sender, support, votes) ==
    IF support
    THEN [proposal EXCEPT !.forVotes = @ + votes]
    ELSE [proposal EXCEPT !.againstVotes = @ + votes]

\* A vote added to the tally opposite to the one the voter chose
CastVoteSwapped(proposal, sender, support, votes) ==
    IF support
    THEN [proposal EXCEPT !.againstVotes = @ + votes, !.hasVoted[sender] = TRUE]
    ELSE [proposal EXCEPT !.forVotes = @ + votes, !.hasVoted[sender] = TRUE]

\* lines 146-154
CastVote(proposal, sender, support, votes) ==
    IF support
    THEN [proposal EXCEPT !.forVotes = @ + votes, !.hasVoted[sender] = TRUE]
    ELSE [proposal EXCEPT !.againstVotes = @ + votes, !.hasVoted[sender] = TRUE]

\* lines 136-157
Vote(sender, proposalId, support) ==
    LET status == VoteCheck(sender, proposalId)
    IN  IF status # OK
        THEN Revert("vote", sender, proposalId, status)
        ELSE /\ proposals' = [proposals EXCEPT ![proposalId] =
                                 CastVote(@, sender, support, balances[sender])]
             /\ receipt' = VoteCast(proposalId, sender, support, balances[sender])
             /\ voteLog' = voteLog \cup {<<proposalId, sender>>}
             /\ UNCHANGED <<blockTimestamp, balances, totalSupply, proposalIdCounter,
                            proposalIds, ntokenops>>

\* An executeProposal that accepts the call at endTime already
ExecuteCheckAtEnd(proposalId) ==
    IF ~ProposalExists(proposalId) THEN "Proposal does not exist"
    ELSE IF proposals[proposalId].executed THEN "Proposal already executed"
    ELSE IF proposals[proposalId].canceled THEN "Proposal canceled"
    ELSE IF ~(blockTimestamp >= proposals[proposalId].endTime) THEN "Voting period not ended"
    ELSE IF ~(proposals[proposalId].forVotes > proposals[proposalId].againstVotes)
    THEN "Proposal rejected"
    ELSE OK

\* lines 164-170: the first require of executeProposal that fails
ExecuteCheck(proposalId) ==
    IF ~ProposalExists(proposalId) THEN "Proposal does not exist"
    ELSE IF proposals[proposalId].executed THEN "Proposal already executed"
    ELSE IF proposals[proposalId].canceled THEN "Proposal canceled"
    ELSE IF ~(blockTimestamp > proposals[proposalId].endTime) THEN "Voting period not ended"
    ELSE IF ~(proposals[proposalId].forVotes > proposals[proposalId].againstVotes)
    THEN "Proposal rejected"
    ELSE OK

\* lines 163-175
ExecuteProposal(sender, proposalId) ==
    LET status == ExecuteCheck(proposalId)
    IN  IF status # OK
        THEN Revert("executeProposal", sender, proposalId, status)
        ELSE /\ proposals' = [proposals EXCEPT ![proposalId].executed = TRUE]
             /\ receipt' = Receipt("executeProposal", sender, proposalId, OK)
             /\ UNCHANGED <<blockTimestamp, balances, totalSupply, proposalIdCounter,
                            proposalIds, voteLog, ntokenops>>

\* A cancelProposal that does not look at the executed flag
CancelCheckIgnoringExecuted(sender, proposalId) ==
    IF ~ProposalExists(proposalId) THEN "Proposal does not exist"
    ELSE IF proposals[proposalId].canceled THEN "Proposal already canceled"
    ELSE IF ~(sender = proposals[proposalId].proposer) THEN "Only proposer can cancel"
    ELSE OK

\* lines 182-188: the first require of cancelProposal that fails
CancelCheck(sender, proposalId) ==
    IF ~ProposalExists(proposalId) THEN "Proposal does not exist"
    ELSE IF proposals[proposalId].executed THEN "Proposal already executed"
    ELSE IF proposals[proposalId].canceled THEN "Proposal already canceled"
    ELSE IF ~(sender = proposals[proposalId].proposer) THEN "Only proposer can cancel"
    ELSE OK

\* lines 181-193
CancelProposal(sender, proposalId) ==
    LET status == CancelCheck(sender, proposalId)
    IN  IF status # OK
        THEN Revert("cancelProposal", sender, proposalId, status)
        ELSE /\ proposals' = [proposals EXCEPT ![proposalId].canceled = TRUE]
             /\ receipt' = Receipt("cancelProposal", sender, proposalId, OK)
             /\ UNCHANGED <<blockTimestamp, balances, totalSupply, proposalIdCounter,
                            proposalIds, voteLog, ntokenops>>

\* A view call as its caller saw it: what it returned, or its revert reason
ViewCall(fn, id, status, result) ==
    [fn |-> fn, sender |-> ZeroAddress, id |-> id, status |-> status,
     result |-> result]

\* A view changes nothing
View(fn, id, status, result) ==
    /\ receipt' = ViewCall(fn, id, status, result)
    /\ UNCHANGED <<blockTimestamp, balances, totalSupply, proposalIdCounter,
                   proposals, proposalIds, voteLog, ntokenops>>

\* lines 208-233
GetProposal(proposalId) ==
    IF ~ProposalExists(proposalId)
    THEN View("getProposal", proposalId, "Proposal does not exist", <<>>)
    ELSE View("getProposal", proposalId, OK,
              <<proposals[proposalId].proposer, proposals[proposalId].endTime,
                proposals[proposalId].executed, proposals[proposalId].canceled>>)

\* lines 240-242
GetProposals == View("getProposals", 0, OK, proposalIds)

\* lines 248-250
GetProposalCount == View("getProposalCount", 0, OK, <<proposalIdCounter - 1>>)

\* lines 258-261
HasVoted(proposalId, voter) ==
    IF ~ProposalExists(proposalId)
    THEN View("hasVoted", proposalId, "Proposal does not exist", <<>>)
    ELSE View("hasVoted", proposalId, OK, <<proposals[proposalId].hasVoted[voter]>>)

\* The next block is mined one time unit later
AdvanceBlock ==
    /\ blockTimestamp < MaxBlockTime
    /\ blockTimestamp' = blockTimestamp + 1
    /\ receipt' = NoReceipt
    /\ UNCHANGED <<balances, totalSupply, proposalIdCounter, proposals, proposalIds,
                   voteLog, ntokenops>>

\* part_020 lines 15-22 and DAOGovLite.sol lines 74-80: the two constructors
InitDAO ==
    /\ blockTimestamp = 0
    /\ balances = [a \in Addresses |-> IF a = Deployer THEN INITIAL_SUPPLY ELSE 0]
    /\ totalSupply = INITIAL_SUPPLY
    /\ proposalIdCounter = 1
    /\ proposals = [id \in 0..(MaxIds + 1) |-> NoProposal]
    /\ proposalIds = <<>>
    /\ receipt = NoReceipt
    /\ voteLog = {}
    /\ ntokenops = 0

-----------------------------------------------------------------------------
(* Web3Context.tsx: the status getProposalById derives for a proposal      *)
(* (lines 1430-1570) and the check voteOnProposal makes of it (lines       *)
(* 1755-1838).  Here a uint256 amount of base units is held as its whole   *)
(* tokens and the base units beyond them (10**18 base units make a token), *)
(* and block.timestamp and Date.now() / 1000 are the same instant.         *)

MaxStatusTime == 3        \* the instants a proposal is read at: 0..MaxStatusTime
MaxEndTime == 2           \* endTime of the proposals read: 1..MaxEndTime
MaxDust == 1              \* base units beyond the whole tokens of a tally

\* parseFloat, line 1564: a double of 1.0 or more is at least 2^-52 from the
\* next one, which is 222 base units of a token with 18 decimals; a decimal
\* less than half of that above a whole number parses to the whole number
DOUBLE_HALF_ULP == 111

BaseUnits(whole, dust) == [whole |-> whole, dust |-> dust]

\* The tallies read: nothing, one base unit, 1000 tokens, 1000 tokens and a base unit
Tallies == {BaseUnits(w, d) : w \in {0, PROPOSAL_THRESHOLD}, d \in 0..MaxDust}

\* Solidity's > on two uint256 amounts (DAOGovLite.sol line 170)
MoreBaseUnits(a, b) == a.whole > b.whole \/ (a.whole = b.whole /\ a.dust > b.dust)

\* lines 1500 and 1508, ethers.utils.formatUnits(x, 18): the decimal string,
\* exact, as its integer part and its 18 fraction digits
FormatUnits(x) == [int |-> x.whole, frac |-> x.dust]

\* line 1564, parseFloat: the double nearest to the decimal, as the decimal
\* that double equals (exact for the tallies read here)
ParseFloat(s) ==
    IF s.int >= 1 /\ s.frac < DOUBLE_HALF_ULP
    THEN [int |-> s.int, frac |-> 0]
    ELSE s

\* line 1566: > on two doubles
FloatGreater(x, y) == x.int > y.int \/ (x.int = y.int /\ x.frac > y.frac)

\* What getProposal (DAOGovLite.sol lines 208-233) returned at instant time
RawProposal(executed, canceled, endTime, forVotes, againstVotes, time) ==
    [executed |-> executed, canceled |-> canceled, endTime |-> endTime,
     forVotes |-> forVotes, againstVotes |-> againstVotes, time |-> time]

\* The proposals the contract can hold: executed only after endTime with more
\* votes for than against, and never both executed and canceled
RawProposals ==
    {r \in {RawProposal(e, c, end, f, a, t) :
               e \in BOOLEAN, c \in BOOLEAN, end \in 1..MaxEndTime,
               f \in Tallies, a \in Tallies, t \in 0..MaxStatusTime} :
        /\ ~(r.executed /\ r.canceled)
        /\ r.executed => (r.time > r.endTime /\ MoreBaseUnits(r.forVotes, r.againstVotes))}

\* lines 1557-1570
DeriveStatus(executed, canceled, nowSec, endTime, forVotes, againstVotes) ==
    IF executed THEN "Executed"
    ELSE IF canceled THEN "Failed"
    ELSE IF nowSec > endTime
    THEN IF FloatGreater(ParseFloat(forVotes), ParseFloat(againstVotes))
         THEN "Pending"
         ELSE "Failed"
    ELSE "Active"

\* getProposalById returned null (lines 1240, 1394, 1613)
NoStandardProposal ==
    [status |-> "null", forVotes |-> FormatUnits(BaseUnits(0, 0)),
     againstVotes |-> FormatUnits(BaseUnits(0, 0)), endTime |-> 0]

\* lines 1497-1590: the proposal object built from what the contract returned
StandardProposal(raw) ==
    [status |-> DeriveStatus(raw.executed, raw.canceled, raw.time, raw.endTime,
                             FormatUnits(raw.forVotes), FormatUnits(raw.againstVotes)),
     forVotes |-> FormatUnits(raw.forVotes),
     againstVotes |-> FormatUnits(raw.againstVotes),
     endTime |-> raw.endTime]

\* voteOnProposal has not been called
NoVote == [called |-> FALSE, status |-> "null", sent |-> FALSE]

\* lines 1210-1624: getProposalById resolves with the proposal, or with null
\* when the contract is missing or every read of it failed
GetProposalById(loaded) ==
    /\ standardProposal' = IF loaded THEN StandardProposal(rawProposal)
                           ELSE NoStandardProposal
    /\ UNCHANGED <<rawProposal, voteSubmitted>>

\* lines 1755-1838: voteOnProposal up to the vote transaction.  It fetches
\* the proposal, gives up unless its status is 'Active', gives up when the
\* account has voted, and then sends the transaction
VoteOnProposal(loaded, hasAlreadyVoted) ==
    \E proposal \in {IF loaded THEN StandardProposal(rawProposal)
                     ELSE NoStandardProposal} :
        /\ standardProposal' = proposal
        /\ voteSubmitted' =
               [called |-> TRUE, status |-> proposal.status,
                sent |-> /\ proposal # NoStandardProposal
                         /\ proposal.status = "Active"
                         /\ ~hasAlreadyVoted]
        /\ UNCHANGED rawProposal

\* Nothing has been read
InitStatus ==
    /\ rawProposal = RawProposal(FALSE, FALSE, 1, BaseUnits(0, 0), BaseUnits(0, 0), 0)
    /\ standardProposal = NoStandardProposal
    /\ voteSubmitted = NoVote

\* Any proposal the contract can hold, read at any instant
InitStatusInputs ==
    /\ rawProposal \in RawProposals
    /\ standardProposal = NoStandardProposal
    /\ voteSubmitted = NoVote

-----------------------------------------------------------------------------
(* Web3Context.tsx: connectWallet and the effects that touch its refs       *)

MaxConnectCalls == 4      \* connectWallet calls in one behaviour
MaxConnectTicks == 11     \* the connection clock stops MaxConnectTicks ticks after start
ConnectTick == 1000       \* step of the connection clock, ms

\* Web3Context.tsx lines 763, 264 and 793
MIN_CONNECTION_INTERVAL == 2000
maxConnectionAttempts == 3
ATTEMPT_BACKOFF == 5000

Flows == 1..MaxConnectCalls

\* Where a connectWallet call stands: not made yet, returned at one of the
\* guards (lines 766-781), or awaiting line 793, 815, 848 or 856, or returned
FlowStates == {"new", "skipped", "backoff", "requesting", "initializing", "balance", "done"}

\* A flow that passed the guards and has not returned yet
Running == {"backoff", "requesting", "initializing", "balance"}

\* The React state connectWallet and the effects read
Disconnected == [connected |-> FALSE, account |-> FALSE, contracts |-> FALSE]

\* The connection clock starts away from 0, as Date.now() does
ConnectStart == MIN_CONNECTION_INTERVAL

ConnectEnd == ConnectStart + MaxConnectTicks * ConnectTick

\* lines 766-781: does connectWallet return at one of its guards
ConnectSkipped ==
    \/ connectingRef
    \/ rendered.connected /\ rendered.account /\ rendered.contracts
    \/ connectNow - lastConnectionAttemptRef < MIN_CONNECTION_INTERVAL

\* lines 797-815 and 864-868: the start of the try block of flow f: without a
\* provider the flow returns through finally, else it sends eth_requestAccounts
EnterTry(f, hasEthereum) ==
    IF ~hasEthereum
    THEN /\ flowPc' = [flowPc EXCEPT ![f] = "done"]
         /\ connectingRef' = FALSE
         /\ UNCHANGED requestsSent
    ELSE /\ flowPc' = [flowPc EXCEPT ![f] = "requesting"]
         /\ connectingRef' = TRUE
         /\ requestsSent' = requestsSent + 1

\* lines 759-815: a call of connectWallet, up to its first await, with
\* window.ethereum defined or not
ConnectWallet(f, hasEthereum) ==
    /\ f = nflows + 1
    /\ nflows' = f
    /\ IF ConnectSkipped
       THEN /\ flowPc' = [flowPc EXCEPT ![f] = "skipped"]
            /\ UNCHANGED <<connectingRef, lastConnectionAttemptRef,
                           connectionAttemptRef, flowDue, requestsSent>>
       ELSE /\ lastConnectionAttemptRef' = connectNow
            /\ IF connectionAttemptRef + 1 > maxConnectionAttempts
               THEN /\ connectionAttemptRef' = 1
                    /\ connectingRef' = TRUE
                    /\ flowPc' = [flowPc EXCEPT ![f] = "backoff"]
                    /\ flowDue' = [flowDue EXCEPT ![f] = connectNow + ATTEMPT_BACKOFF]
                    /\ UNCHANGED requestsSent
               ELSE /\ connectionAttemptRef' = connectionAttemptRef + 1
                    /\ EnterTry(f, hasEthereum)
                    /\ UNCHANGED flowDue
    /\ UNCHANGED <<connectNow, reactState, rendered>>

\* line 793: the 5 s wait of flow f is over
BackoffDone(f, hasEthereum) ==
    /\ flowPc[f] = "backoff"
    /\ connectNow >= flowDue[f]
    /\ EnterTry(f, hasEthereum)
    /\ UNCHANGED <<connectNow, lastConnectionAttemptRef, connectionAttemptRef,
                   reactState, rendered, flowDue, nflows>>

\* lines 815-844 and 861-868: eth_requestAccounts of flow f settles, with
\* accounts, with none, or with an error (as do the awaits of 828 and 833)
AccountsReturned(f, outcome) ==
    /\ flowPc[f] = "requesting"
    /\ IF outcome = "accounts"
       THEN /\ reactState' = [reactState EXCEPT !.connected = TRUE, !.account = TRUE]
            /\ flowPc' = [flowPc EXCEPT ![f] = "initializing"]
            /\ UNCHANGED connectingRef
       ELSE /\ flowPc' = [flowPc EXCEPT ![f] = "done"]
            /\ connectingRef' = FALSE
            /\ UNCHANGED reactState
    /\ UNCHANGED <<connectNow, lastConnectionAttemptRef, connectionAttemptRef,
                   rendered, flowDue, nflows, requestsSent>>

\* line 848 (494-585): initializeContractsWithSigner of flow f returns, with
\* the contracts set or with none
ContractsInitialized(f, ok) ==
    /\ flowPc[f] = "initializing"
    /\ reactState' = IF ok THEN [reactState EXCEPT !.contracts = TRUE] ELSE reactState
    /\ flowPc' = [flowPc EXCEPT ![f] = "balance"]
    /\ UNCHANGED <<connectNow, connectingRef, lastConnectionAttemptRef,
                   connectionAttemptRef, rendered, flowDue, nflows,
                   requestsSent>>

\* lines 856-868: updateTokenBalance of flow f settles; finally clears the flag
BalanceFetched(f) ==
    /\ flowPc[f] = "balance"
    /\ flowPc' = [flowPc EXCEPT ![f] = "done"]
    /\ connectingRef' = FALSE
    /\ UNCHANGED <<connectNow, lastConnectionAttemptRef, connectionAttemptRef,
                   reactState, rendered, flowDue, nflows, requestsSent>>

\* lines 896-903: disconnectWallet resets the state
DisconnectWallet ==
    /\ rendered.connected
    /\ reactState # Disconnected
    /\ reactState' = Disconnected
    /\ UNCHANGED <<connectNow, connectingRef, lastConnectionAttemptRef,
                   connectionAttemptRef, rendered, flowPc, flowDue,
                   nflows, requestsSent>>

\* React renders the state last set; when `connected` changed, the cleanup of
\* the effect of lines 2269-2339 (dependencies [connected]) runs
Commit ==
    /\ rendered # reactState
    /\ rendered' = reactState
    /\ IF rendered.connected # reactState.connected
       THEN /\ connectingRef' = FALSE
            /\ connectionAttemptRef' = 0
       ELSE UNCHANGED <<connectingRef, connectionAttemptRef>>
    /\ UNCHANGED <<connectNow, lastConnectionAttemptRef, reactState,
                   flowPc, flowDue, nflows, requestsSent>>

\* Time passes, once React has rendered and every wait that is over has ended
AdvanceConnect ==
    /\ connectNow < ConnectEnd
    /\ rendered = reactState
    /\ \A f \in Flows : flowPc[f] = "backoff" => flowDue[f] > connectNow
    /\ connectNow' = connectNow + ConnectTick
    /\ UNCHANGED <<connectingRef, lastConnectionAttemptRef, connectionAttemptRef,
                   reactState, rendered, flowPc, flowDue, nflows,
                   requestsSent>>

\* lines 263-268 and the useState initial values
InitConnect ==
    /\ connectNow = ConnectStart
    /\ connectingRef = FALSE
    /\ lastConnectionAttemptRef = 0
    /\ connectionAttemptRef = 0
    /\ reactState = Disconnected
    /\ rendered = Disconnected
    /\ flowPc = [f \in Flows |-> "new"]
    /\ flowDue = [f \in Flows |-> 0]
    /\ nflows = 0
    /\ requestsSent = 0

-----------------------------------------------------------------------------
(* use-web3.ts lines 203-216: the periodic cleanup of requestCache          *)

MaxSweeps == 2            \* runs of the cleanup interval in one behaviour

\* lines 216 and 210
SWEEP_INTERVAL == 60000
SWEEP_FACTOR == 3

\* lines 209-210: the method is the part of the key before the first "-"
SweepExpiry(key) == CACHE_TIMES(MethodOf(key)) * SWEEP_FACTOR

\* The cleanup with >= for > at line 212
SweepInclusive(cache, t) ==
    [k \in Keys |-> IF cache[k].present /\ t - cache[k].timestamp >= SweepExpiry(k)
                    THEN NoEntry ELSE cache[k]]

\* lines 205-215: the body of the interval callback
Sweep(cache, t) ==
    [k \in Keys |-> IF cache[k].present /\ t - cache[k].timestamp > SweepExpiry(k)
                    THEN NoEntry ELSE cache[k]]

\* The interval callback runs
SweepTick ==
    /\ now > 0
    /\ now % SWEEP_INTERVAL = 0
    /\ requestCache' = Sweep(requestCache, now)
    /\ ev' = [NoEvent EXCEPT !.op = "sweep"]
    /\ UNCHANGED <<now, circuitBreakerActive, circuitRecoveryTimeout,
                   pendingRequests, rpcCallCount, rpcCallsByType, lastRpcReset,
                   monkeyPatchApplied, patchLayers, debouncedCalls, timers, inflight, mounted,
                   rpcOverload, checkDue, lastCached, burst, nreq, nmount>>

\* A minute passes with no call and no component mounted
AdvanceSweep ==
    /\ now < MaxSweeps * SWEEP_INTERVAL
    /\ \A h \in Hooks : ~mounted[h]
    /\ ~circuitRecoveryTimeout.armed
    /\ timers = EmptyBag
    /\ now' = now + SWEEP_INTERVAL
    /\ ev' = NoEvent
    /\ UNCHANGED <<circuitBreakerActive, circuitRecoveryTimeout, requestCache,
                   pendingRequests, rpcCallCount, rpcCallsByType, lastRpcReset,
                   monkeyPatchApplied, patchLayers, debouncedCalls, timers, inflight, mounted,
                   rpcOverload, checkDue, lastCached, burst, nreq, nmount>>

\* The ages of the entry of a key that the first cleanup may meet: just past
\* its expiry, exactly at it, and a millisecond old
SweepAges(key) == {SweepExpiry(key) + 1, SweepExpiry(key), 1}

\* The module state when the first cleanup is due: the interceptor installed,
\* the component unmounted again, the breaker Closed or left Open by the
\* unmount, and any entries in the cache
InitSweep ==
    /\ now = SWEEP_INTERVAL
    /\ circuitBreakerActive \in BOOLEAN
    /\ circuitRecoveryTimeout =
         IF circuitBreakerActive THEN [NoTimeout EXCEPT !.set = TRUE, !.owner = 1]
         ELSE NoTimeout
    /\ requestCache \in
         [Keys -> {NoEntry} \cup
                  {Entry("0xabc", SWEEP_INTERVAL - a) :
                       a \in UNION {SweepAges(k) : k \in Keys}}]
    /\ \A k \in Keys :
         requestCache[k].present => SWEEP_INTERVAL - requestCache[k].timestamp \in SweepAges(k)
    /\ pendingRequests = [k \in Keys |-> FALSE]
    /\ rpcCallCount = 0
    /\ rpcCallsByType = [m \in Methods |-> 0]
    /\ lastRpcReset = 0
    /\ monkeyPatchApplied = TRUE
    /\ patchLayers = 1
    /\ debouncedCalls = [k \in Keys |-> "none"]
    /\ timers = EmptyBag
    /\ inflight = EmptyBag
    /\ mounted = [h \in Hooks |-> FALSE]
    /\ rpcOverload = [h \in Hooks |-> FALSE]
    /\ checkDue = [h \in Hooks |-> 0]
    /\ ev = NoEvent
    /\ lastCached = EmptyCache
    /\ burst = 0
    /\ nreq = 0
    /\ nmount = 0

InitWeb ==
    /\ now = 0
    /\ circuitBreakerActive = FALSE
    /\ circuitRecoveryTimeout = NoTimeout
    /\ requestCache = EmptyCache
    /\ pendingRequests = [k \in Keys |-> FALSE]
    /\ rpcCallCount = 0
    /\ rpcCallsByType = [m \in Methods |-> 0]
    /\ lastRpcReset = 0
    /\ monkeyPatchApplied = FALSE
    /\ patchLayers = 0
    /\ debouncedCalls = [k \in Keys |-> "none"]
    /\ timers = EmptyBag
    /\ inflight = EmptyBag
    /\ mounted = [h \in Hooks |-> FALSE]
    /\ rpcOverload = [h \in Hooks |-> FALSE]
    /\ checkDue = [h \in Hooks |-> 0]
    /\ ev = NoEvent
    /\ lastCached = EmptyCache
    /\ burst = 0
    /\ nreq = 0
    /\ nmount = 0

vars == <<webVars, trackerVars, daoVars, connectVars, throttleVars, fetchVars,
          statusVars>>

Init ==
    /\ InitWeb /\ InitTracker /\ InitDAO /\ InitConnect /\ InitThrottle /\ InitFetch
    /\ InitStatus

\* The wallet request interceptor and its circuit breaker
Next ==
    \/ UNCHANGED <<trackerVars, daoVars, connectVars, throttleVars, fetchVars, statusVars>> /\ \E k \in Keys, n \in {1, BurstSize} : Request(k, n)
    \/ UNCHANGED <<trackerVars, daoVars, connectVars, throttleVars, fetchVars, statusVars>> /\ \E t \in BagToSet(timers) : FireTimer(t)
    \/ UNCHANGED <<trackerVars, daoVars, connectVars, throttleVars, fetchVars, statusVars>> /\ \E c \in BagToSet(inflight) : SettleErr(c)
    \/ UNCHANGED <<trackerVars, daoVars, connectVars, throttleVars, fetchVars, statusVars>> /\ \E c \in BagToSet(inflight), v \in Values : SettleOk(c, v)
    \/ UNCHANGED <<trackerVars, daoVars, connectVars, throttleVars, fetchVars, statusVars>> /\ \E h \in Hooks : Mount(h)
    \/ UNCHANGED <<trackerVars, daoVars, connectVars, throttleVars, fetchVars, statusVars>> /\ \E h \in Hooks : Unmount(h)
    \/ UNCHANGED <<trackerVars, daoVars, connectVars, throttleVars, fetchVars, statusVars>> /\ \E h \in Hooks : MonitorTick(h)
    \/ UNCHANGED <<trackerVars, daoVars, connectVars, throttleVars, fetchVars, statusVars>> /\ RecoveryFire
    \/ UNCHANGED <<trackerVars, daoVars, connectVars, throttleVars, fetchVars, statusVars>> /\ \E h \in Hooks : ResetCircuitBreaker(h)
    \/ UNCHANGED <<trackerVars, daoVars, connectVars, throttleVars, fetchVars, statusVars>> /\ Advance

Spec == Init /\ [][Next]_vars

\* The rate tracker of Web3Context.tsx
NextTracker ==
    \/ UNCHANGED <<webVars, daoVars, connectVars, throttleVars, fetchVars, statusVars>> /\ TrackRPCCall
    \/ UNCHANGED <<webVars, daoVars, connectVars, throttleVars, fetchVars, statusVars>> /\ \E d \in Waits : Wait(d)

\* The interceptor under a caller that keeps asking for the accounts
MaxDebounceRequests == 4   \* request loops of that caller in one behaviour
DebounceBurst == 6         \* calls of its longest loop

DebounceKey == <<"eth_accounts", "[]">>

NextDebounce ==
    \/ UNCHANGED <<trackerVars, daoVars, connectVars, throttleVars, fetchVars, statusVars>> /\
           \E n \in {1, DebounceBurst} : RequestWithin(DebounceKey, n, MaxDebounceRequests)
    \/ UNCHANGED <<trackerVars, daoVars, connectVars, throttleVars, fetchVars, statusVars>> /\ \E t \in BagToSet(timers) : FireTimer(t)
    \/ UNCHANGED <<trackerVars, daoVars, connectVars, throttleVars, fetchVars, statusVars>> /\ \E c \in BagToSet(inflight) : SettleErr(c)
    \/ UNCHANGED <<trackerVars, daoVars, connectVars, throttleVars, fetchVars, statusVars>> /\ \E c \in BagToSet(inflight), v \in Values : SettleOk(c, v)
    \/ UNCHANGED <<trackerVars, daoVars, connectVars, throttleVars, fetchVars, statusVars>> /\ \E h \in Hooks : Mount(h)
    \/ UNCHANGED <<trackerVars, daoVars, connectVars, throttleVars, fetchVars, statusVars>> /\ \E h \in Hooks : Unmount(h)
    \/ UNCHANGED <<trackerVars, daoVars, connectVars, throttleVars, fetchVars, statusVars>> /\ \E h \in Hooks : MonitorTick(h)
    \/ UNCHANGED <<trackerVars, daoVars, connectVars, throttleVars, fetchVars, statusVars>> /\ Advance

SpecDebounce == Init /\ [][NextDebounce]_vars

SpecTracker == Init /\ [][NextTracker]_vars

\* throttledCall over the rate tracker
NextThrottled ==
    \/ UNCHANGED <<webVars, daoVars, connectVars, fetchVars, statusVars>> /\
           \E i \in ThrottledCalls, key \in CacheKeys, forceRefresh \in BOOLEAN :
              ThrottledCall(i, key, forceRefresh, DEFAULT_CACHE_DURATION)
    \/ UNCHANGED <<webVars, daoVars, connectVars, fetchVars, statusVars>> /\ \E i \in ThrottledCalls : BackoffOver(i)
    \/ UNCHANGED <<webVars, daoVars, connectVars, fetchVars, statusVars>> /\
           \E i \in ThrottledCalls, d \in Data : FnResolve(i, d)
    \/ UNCHANGED <<webVars, daoVars, connectVars, fetchVars, statusVars>> /\ \E i \in ThrottledCalls : FnReject(i)
    \/ UNCHANGED <<webVars, daoVars, connectVars, fetchVars, statusVars>> /\ ClearResponseCache
    \/ UNCHANGED <<webVars, daoVars, connectVars, fetchVars, statusVars>> /\ \E d \in Waits : ThrottledWait(d)

SpecThrottled == Init /\ [][NextThrottled]_vars

\* The cleanup interval of use-web3.ts
NextSweep ==
    \/ UNCHANGED <<trackerVars, daoVars, connectVars, throttleVars, fetchVars, statusVars>> /\ SweepTick
    \/ UNCHANGED <<trackerVars, daoVars, connectVars, throttleVars, fetchVars, statusVars>> /\ AdvanceSweep

\* The page some time after it loaded, the rest of the program untouched
InitSweeping ==
    /\ InitSweep /\ InitTracker /\ InitDAO /\ InitConnect /\ InitThrottle /\ InitFetch
    /\ InitStatus

SpecSweep == InitSweeping /\ [][NextSweep]_vars

\* The proposal fetches of Web3Provider
NextFetch ==
    \/ UNCHANGED <<webVars, trackerVars, daoVars, connectVars, throttleVars, statusVars>> /\
           \E i \in FetchSlots, kind \in FetchKinds, forceRefresh, recent, hasContract, cached \in BOOLEAN :
              StartFetch(i, kind, forceRefresh, recent, hasContract, cached)
    \/ UNCHANGED <<webVars, trackerVars, daoVars, connectVars, throttleVars, statusVars>> /\
           \E i \in FetchSlots, recent, hasContract, cached \in BOOLEAN :
              PollDone(i, recent, hasContract, cached)
    \/ UNCHANGED <<webVars, trackerVars, daoVars, connectVars, throttleVars, statusVars>> /\
           \E i \in FetchSlots, providerFails \in BOOLEAN : AttemptEnds(i, providerFails)
    \/ UNCHANGED <<webVars, trackerVars, daoVars, connectVars, throttleVars, statusVars>> /\
           \E i \in FetchSlots : RetryFire(i)
    \/ UNCHANGED <<webVars, trackerVars, daoVars, connectVars, throttleVars, statusVars>> /\
           \E on \in BOOLEAN : Prefetch(on)
    \/ UNCHANGED <<webVars, trackerVars, daoVars, connectVars, throttleVars, statusVars>> /\ AdvanceFetch

SpecFetch == Init /\ [][NextFetch]_vars

\* The proposal status of Web3Provider
NextStatus ==
    \/ UNCHANGED <<webVars, trackerVars, daoVars, connectVars, throttleVars, fetchVars>> /\
           \E loaded \in BOOLEAN : GetProposalById(loaded)
    \/ UNCHANGED <<webVars, trackerVars, daoVars, connectVars, throttleVars, fetchVars>> /\
           \E loaded, hasAlreadyVoted \in BOOLEAN : VoteOnProposal(loaded, hasAlreadyVoted)

\* A proposal about to be read, the rest of the program untouched
InitReading ==
    /\ InitWeb /\ InitTracker /\ InitDAO /\ InitConnect /\ InitThrottle /\ InitFetch
    /\ InitStatusInputs

SpecStatus == InitReading /\ [][NextStatus]_vars

\* The DAO contract over several proposals, with every id a caller can pass
NextIds ==
    \/ UNCHANGED <<webVars, trackerVars, connectVars, throttleVars, fetchVars, statusVars>> /\
           \E a \in Addresses, title \in Titles, description \in Descriptions,
              duration \in Durations :
               CreateProposalWithin(a, title, description, duration, MaxIds)
    \/ UNCHANGED <<webVars, trackerVars, connectVars, throttleVars, fetchVars, statusVars>> /\
           \E a \in Addresses, id \in 0..(MaxIds + 1), support \in BOOLEAN :
               Vote(a, id, support)
    \/ UNCHANGED <<webVars, trackerVars, connectVars, throttleVars, fetchVars, statusVars>> /\
           \E a \in Addresses, id \in 0..(MaxIds + 1) : ExecuteProposal(a, id)
    \/ UNCHANGED <<webVars, trackerVars, connectVars, throttleVars, fetchVars, statusVars>> /\
           \E a \in Addresses, id \in 0..(MaxIds + 1) : CancelProposal(a, id)
    \/ UNCHANGED <<webVars, trackerVars, connectVars, throttleVars, fetchVars, statusVars>> /\
           \E id \in 0..(MaxIds + 1) : GetProposal(id)
    \/ UNCHANGED <<webVars, trackerVars, connectVars, throttleVars, fetchVars, statusVars>> /\
           \E a \in Addresses, id \in 0..(MaxIds + 1) : HasVoted(id, a)
    \/ UNCHANGED <<webVars, trackerVars, connectVars, throttleVars, fetchVars, statusVars>> /\
           GetProposals
    \/ UNCHANGED <<webVars, trackerVars, connectVars, throttleVars, fetchVars, statusVars>> /\
           GetProposalCount
    \/ UNCHANGED <<webVars, trackerVars, connectVars, throttleVars, fetchVars, statusVars>> /\
           AdvanceBlock

SpecIds == Init /\ [][NextIds]_vars

\* The governance token and the DAO contract
NextDAO ==
    \/ UNCHANGED <<webVars, trackerVars, connectVars, throttleVars, fetchVars, statusVars>> /\
           \E a \in Addresses, title \in Titles, description \in Descriptions,
              duration \in Durations : CreateProposal(a, title, description, duration)
    \/ UNCHANGED <<webVars, trackerVars, connectVars, throttleVars, fetchVars, statusVars>> /\
           \E a \in Addresses, id \in IdInputs, support \in BOOLEAN : Vote(a, id, support)
    \/ UNCHANGED <<webVars, trackerVars, connectVars, throttleVars, fetchVars, statusVars>> /\
           \E a \in Addresses, id \in IdInputs : ExecuteProposal(a, id)
    \/ UNCHANGED <<webVars, trackerVars, connectVars, throttleVars, fetchVars, statusVars>> /\
           \E a \in Addresses, id \in IdInputs : CancelProposal(a, id)
    \/ UNCHANGED <<webVars, trackerVars, connectVars, throttleVars, fetchVars, statusVars>> /\
           \E a, to \in Addresses, amount \in Amounts : Mint(a, to, amount)
    \/ UNCHANGED <<webVars, trackerVars, connectVars, throttleVars, fetchVars, statusVars>> /\
           \E a, to \in Addresses, amount \in Amounts : Transfer(a, to, amount)
    \/ UNCHANGED <<webVars, trackerVars, connectVars, throttleVars, fetchVars, statusVars>> /\ AdvanceBlock

SpecDAO == Init /\ [][NextDAO]_vars

\* The wallet connection of Web3Provider
NextConnect ==
    \/ UNCHANGED <<webVars, trackerVars, daoVars, throttleVars, fetchVars, statusVars>> /\ \E f \in Flows, hasEthereum \in BOOLEAN : ConnectWallet(f, hasEthereum)
    \/ UNCHANGED <<webVars, trackerVars, daoVars, throttleVars, fetchVars, statusVars>> /\ \E f \in Flows, hasEthereum \in BOOLEAN : BackoffDone(f, hasEthereum)
    \/ UNCHANGED <<webVars, trackerVars, daoVars, throttleVars, fetchVars, statusVars>> /\
           \E f \in Flows, outcome \in {"accounts", "none", "error"} :
              AccountsReturned(f, outcome)
    \/ UNCHANGED <<webVars, trackerVars, daoVars, throttleVars, fetchVars, statusVars>> /\
           \E f \in Flows, ok \in BOOLEAN : ContractsInitialized(f, ok)
    \/ UNCHANGED <<webVars, trackerVars, daoVars, throttleVars, fetchVars, statusVars>> /\ \E f \in Flows : BalanceFetched(f)
    \/ UNCHANGED <<webVars, trackerVars, daoVars, throttleVars, fetchVars, statusVars>> /\ DisconnectWallet
    \/ UNCHANGED <<webVars, trackerVars, daoVars, throttleVars, fetchVars, statusVars>> /\ Commit
    \/ UNCHANGED <<webVars, trackerVars, daoVars, throttleVars, fetchVars, statusVars>> /\ AdvanceConnect

SpecConnect == Init /\ [][NextConnect]_vars

-----------------------------------------------------------------------------
(* Properties of the request interceptor and the circuit breaker *)

\* The unsettled provider calls for key k
InFlightFor(k) ==
    BagCardinality([c \in {x \in BagToSet(inflight) : x.key = k} |-> inflight[c]])

\* C1: for every cache key at most one underlying provider request is in
\* flight at any time, on every path and in every breaker state.
C1_OneInFlightPerKey == \A k \in Keys : InFlightFor(k) <= 1

\* When the breaker last opened (the recovery timeout is set at that moment)
OpenedAt == circuitRecoveryTimeout.due - RECOVERY_DELAY

\* C2: an Open breaker is Closed again no later than 15 s after it opened,
\* whatever mounts or unmounts in between: it is never found Open later.
C2_ClosedWithin15s == circuitBreakerActive => now - OpenedAt <= RECOVERY_DELAY

\* C3: when more than 50 calls went through the interceptor in under a second
\* (here: at one instant) with the breaker Closed, the next monitor tick opens
\* the breaker, whatever the time since the counters were last reset.
C3_BurstOpensBreaker ==
    [][ ( /\ \E h \in Hooks : MonitorTick(h)
          /\ ~circuitBreakerActive
          /\ burst > BREAKER_CALLS )
        => circuitBreakerActive' ]_vars

\* C4: while the breaker is Open a read call whose key has a cached entry
\* resolves to the cached value at once, arming no timer and calling no
\* provider, for every cached value and age.
C4_OpenReadServedFromCache ==
    [][ ( /\ ev'.op = "request"
          /\ circuitBreakerActive
          /\ IsReadMethod(MethodOf(ev'.key))
          /\ requestCache[ev'.key].present )
        => /\ ev'.kind = "cached"
           /\ ev'.value = requestCache[ev'.key].value
           /\ timers' = timers
           /\ inflight' = inflight ]_vars

\* A call served from the cache with value v: nothing armed, nothing sent
ServedFromCache(v) ==
    /\ ev'.kind = "cached"
    /\ ev'.value = v
    /\ timers' = timers
    /\ inflight' = inflight

\* C5 as stated: in Closed state every call for k made less than the TTL after
\* a provider call stored v resolves to v without a provider call, and an entry
\* whose age has reached the TTL is never returned.
C5_ServedUntilTTL ==
    [][ (ev'.op = "request" /\ ~circuitBreakerActive)
        => LET k == ev'.key
               ttl == CACHE_TIMES(MethodOf(k))
           IN  /\ (lastCached[k].present /\ now - lastCached[k].timestamp < ttl)
                    => ServedFromCache(lastCached[k].value)
               /\ (requestCache[k].present /\ now - requestCache[k].timestamp >= ttl)
                    => ev'.kind # "cached" ]_vars

\* C5 amended: in Closed state a call for k made while no request for k is
\* pending and the cache still holds an entry for k younger than the TTL
\* resolves to that entry's value without a provider call, and an entry whose
\* age has reached the TTL is never returned.
C5_FreshEntryServed ==
    [][ (ev'.op = "request" /\ ~circuitBreakerActive)
        => LET k == ev'.key
               ttl == CACHE_TIMES(MethodOf(k))
           IN  /\ ( /\ ~pendingRequests[k]
                    /\ requestCache[k].present
                    /\ now - requestCache[k].timestamp < ttl )
                    => ServedFromCache(requestCache[k].value)
               /\ (requestCache[k].present /\ now - requestCache[k].timestamp >= ttl)
                    => ev'.kind # "cached" ]_vars

\* C5 witness: a call made in Closed state was served from an entry younger
\* than its TTL.
C5_Witness ==
    /\ ev.op = "request"
    /\ ev.kind = "cached"
    /\ ~circuitBreakerActive
    /\ requestCache[ev.key].present
    /\ ev.value = requestCache[ev.key].value
    /\ now - requestCache[ev.key].timestamp < CACHE_TIMES(MethodOf(ev.key))

\* C8: both Open -> Closed transitions empty the request cache and reset the
\* call counters.
C8_ClosingResetsAll ==
    [][ (circuitBreakerActive /\ ~circuitBreakerActive')
        => /\ requestCache' = EmptyCache
           /\ rpcCallCount' = 0
           /\ rpcCallsByType' = [m \in Methods |-> 0]
           /\ lastRpcReset' = now ]_vars

\* C9: a provider error reaches the caller as a rejection on every path but
\* the breaker-Open read path, where the call resolves to null.
C9_ErrorsPropagate ==
    [][ \A c \in BagToSet(inflight) :
          SettleErr(c) => IF c.path = "throttleRead"
                          THEN ev'.op = "resolve" /\ ev'.value = NULL
                          ELSE ev'.op = "reject" ]_vars

-----------------------------------------------------------------------------
(* Properties of the rate tracker *)

\* C19: on the normal path the pending entry of a key exists exactly while
\* the request issued for it is unsettled, there is one such request at most,
\* and a request that fails leaves the cache as it was; so the pending map is
\* empty once every request has settled
C19_PendingWhileUnsettled ==
    /\ [](\A k \in Keys :
            /\ pendingRequests[k] <=> BagIn(Call(k, "normal"), inflight)
            /\ CopiesIn(Call(k, "normal"), inflight) <= 1)
    /\ [][ /\ (ev'.op = "request" /\ ev'.kind = "issued") =>
                ~pendingRequests[ev'.key] /\ pendingRequests'[ev'.key]
           /\ (ev'.op \in {"resolve", "reject"} /\ ev'.kind = "normal") =>
                pendingRequests[ev'.key] /\ ~pendingRequests'[ev'.key]
           /\ (ev'.op = "reject" /\ ev'.kind = "normal") =>
                requestCache' = requestCache ]_vars

\* A request of the normal path has failed: its pending entry is gone, no
\* request is unsettled, and the entry cached before it is still there
C19_Witness ==
    /\ ev.op = "reject"
    /\ ev.kind = "normal"
    /\ inflight = EmptyBag
    /\ \A k \in Keys : ~pendingRequests[k]
    /\ requestCache[ev.key].present
    /\ ~IsFresh(requestCache[ev.key], MethodOf(ev.key), now)

\* The calls of the last second, as the last trackRPCCall counted them
CallsLastSecond == Len(Younger(callHistory, trackerNow, SECOND_WINDOW))

\* C6: each trackRPCCall that sees more than 10 calls in the last second
\* returns true and leaves backoffMs no lower than the call before it left it
C6_OverLimitRaisesBackoff ==
    [][ (ncalls' = ncalls + 1 /\ CallsLastSecond' > maxCallsPerSecond)
            => (isRateLimited' /\ backoffMs' >= backoffMs) ]_vars

\* The timestamps of a history less than `window` before t
CountWithin(history, t, window) ==
    Cardinality({i \in 1..Len(history) : t - history[i] < window})

\* C18: trackRPCCall returns true exactly when, the current call recorded,
\* the calls of the last second exceed 10 or those of the last 60 s exceed
\* 100, and then sets backoffMs to 1.5 times (at most 10 s) or twice (at most
\* 30 s) its value; it multiplies backoffMs by 0.9 (not below 500 ms) only
\* when these are below 5 and below 50, leaves it unchanged in the band
\* between, and leaves in callHistory only timestamps younger than 60 s, the
\* current one last
C18_TrackerVerdict ==
    [][ ncalls' = ncalls + 1 =>
          LET sec == CountWithin(callHistory', trackerNow, SECOND_WINDOW)
              min == Len(callHistory')
              over == sec > maxCallsPerSecond \/ min > maxCallsPerMinute
              under == sec * 2 < maxCallsPerSecond /\ min * 2 < maxCallsPerMinute
          IN  /\ isRateLimited' <=> over
              /\ under => backoffMs' = Max((backoffMs * 9) \div 10, Ms(MIN_BACKOFF))
              /\ sec > maxCallsPerSecond =>
                    backoffMs' = Min((backoffMs * 3) \div 2, Ms(RATE_BACKOFF_CAP))
              /\ (sec <= maxCallsPerSecond /\ min > maxCallsPerMinute) =>
                    backoffMs' = Min(backoffMs * 2, Ms(SEVERE_BACKOFF_CAP))
              /\ (~over /\ ~under) => backoffMs' = backoffMs
              /\ \A i \in 1..min : trackerNow - callHistory'[i] < MINUTE_WINDOW
              /\ min > 0 /\ callHistory'[min] = trackerNow ]_vars

\* A call in the band between the limits and their halves has left the
\* lowered backoffMs as it was, after older timestamps were pruned
C18_Witness ==
    /\ ~isRateLimited
    /\ Len(callHistory) * 2 >= maxCallsPerSecond
    /\ Len(callHistory) < ncalls
    /\ backoffMs < Ms(INITIAL_BACKOFF)

\* C20: a throttledCall invokes fn at most once; when fn fails and a cache
\* item for the key, fresh or expired, existed at its start, it returns that
\* item's data and leaves responseCache as it is; it throws only when fn
\* failed and no item existed; when the tracker reports over-limit and an item
\* existed it returns the item's data without invoking fn, forceRefresh or not
C20_ThrottledFallsBack ==
    [][ throttledEv'.op = "return" =>
          /\ throttledEv'.fnCalls <= 1
          /\ (throttledEv'.failed /\ throttledEv'.cacheItem.present) =>
                /\ ~throttledEv'.thrown
                /\ throttledEv'.data = throttledEv'.cacheItem.data
                /\ responseCache' = responseCache
          /\ throttledEv'.thrown =>
                throttledEv'.failed /\ ~throttledEv'.cacheItem.present
          /\ (throttledEv'.isRateLimited /\ throttledEv'.cacheItem.present) =>
                /\ throttledEv'.fnCalls = 0
                /\ ~throttledEv'.thrown
                /\ throttledEv'.data = throttledEv'.cacheItem.data ]_vars

\* fn failed in a call that had found an expired item, which another call
\* replaced in the meantime: the call has returned the data it found
C20_Witness ==
    /\ throttledEv.op = "return"
    /\ throttledEv.failed
    /\ throttledEv.cacheItem.present
    /\ trackerNow - throttledEv.cacheItem.timestamp >= DEFAULT_CACHE_DURATION
    /\ throttledEv.data = throttledEv.cacheItem.data
    /\ \E k \in CacheKeys : responseCache[k].present /\ responseCache[k] # throttledEv.cacheItem

\* C7: after any sequence of trackRPCCall invocations backoffMs lies in
\* [500, 30000] ms
C7_BackoffClamped ==
    /\ backoffMs >= Ms(MIN_BACKOFF)
    /\ backoffMs <= Ms(SEVERE_BACKOFF_CAP)

\* C7 witness: a call over the per-minute limit has raised backoffMs to the
\* upper end of the interval
C7_Witness ==
    /\ ncalls > maxCallsPerMinute
    /\ isRateLimited
    /\ backoffMs = Ms(SEVERE_BACKOFF_CAP)

-----------------------------------------------------------------------------
(* Properties of the DAO contract *)

\* C10: once an address has voted on a proposal, every later vote by it on
\* that proposal reverts with "Already voted", whatever the support value,
\* and leaves the proposal's tallies and hasVoted flags unchanged
C10_VoteAtMostOnce ==
    [][ (receipt'.fn = "vote" /\ <<receipt'.id, receipt'.sender>> \in voteLog)
            => (receipt'.status = "Already voted" /\ proposals' = proposals) ]_vars

\* C10 witness: an address that had voted on a proposal voted on it again
C10_Witness ==
    /\ receipt.fn = "vote"
    /\ <<receipt.id, receipt.sender>> \in voteLog
    /\ receipt.status = "Already voted"
    /\ proposals[receipt.id].hasVoted[receipt.sender]

\* C11: executeProposal succeeds only for an existing proposal that is not
\* executed, not canceled, whose endTime lies strictly before the block time
\* and whose forVotes exceed its againstVotes, and it marks it executed; a
\* call on an executed proposal reverts with "Proposal already executed" and
\* changes no proposal
C11_ExecuteOnceAfterEnd ==
    [][ receipt'.fn = "executeProposal" =>
          /\ receipt'.status = OK =>
               /\ ProposalExists(receipt'.id)
               /\ ~proposals[receipt'.id].executed
               /\ ~proposals[receipt'.id].canceled
               /\ blockTimestamp > proposals[receipt'.id].endTime
               /\ proposals[receipt'.id].forVotes > proposals[receipt'.id].againstVotes
               /\ proposals' = [proposals EXCEPT ![receipt'.id].executed = TRUE]
          /\ (ProposalExists(receipt'.id) /\ proposals[receipt'.id].executed) =>
               /\ receipt'.status = "Proposal already executed"
               /\ proposals' = proposals ]_vars

\* C11 witness: a proposal was executed after its voting period and a second
\* executeProposal on it was rejected
C11_Witness ==
    /\ receipt.fn = "executeProposal"
    /\ receipt.status = "Proposal already executed"
    /\ proposals[receipt.id].executed
    /\ blockTimestamp > proposals[receipt.id].endTime

\* The requires of vote other than the voting-power one all pass
VoteOtherwiseAccepted(voter, proposalId) ==
    /\ ProposalExists(proposalId)
    /\ ~proposals[proposalId].hasVoted[voter]
    /\ blockTimestamp <= proposals[proposalId].endTime
    /\ ~proposals[proposalId].canceled
    /\ ~proposals[proposalId].executed

\* C12: a successful vote adds exactly the voter's balance to forVotes
\* (support) or againstVotes (no support), sets the voter's hasVoted flag and
\* changes nothing else; a vote by an address with no tokens never succeeds,
\* and reverts with "No voting power" when nothing else is wrong with it
C12_VoteFrame ==
    [][ receipt'.fn = "vote" =>
          /\ receipt'.status = OK =>
               /\ balances[receipt'.sender] > 0
               /\ receipt'.votes = balances[receipt'.sender]
               /\ proposals' =
                    [proposals EXCEPT
                       ![receipt'.id].forVotes =
                           IF receipt'.support THEN @ + balances[receipt'.sender] ELSE @,
                       ![receipt'.id].againstVotes =
                           IF receipt'.support THEN @ ELSE @ + balances[receipt'.sender],
                       ![receipt'.id].hasVoted[receipt'.sender] = TRUE]
               /\ UNCHANGED <<blockTimestamp, balances, totalSupply, proposalIdCounter,
                              proposalIds>>
          /\ balances[receipt'.sender] = 0 =>
               /\ receipt'.status # OK
               /\ VoteOtherwiseAccepted(receipt'.sender, receipt'.id)
                     => receipt'.status = "No voting power" ]_vars

\* C12 witness: a vote against a proposal succeeded and was tallied
C12_Witness ==
    /\ receipt.fn = "vote"
    /\ receipt.status = OK
    /\ ~receipt.support
    /\ proposals[receipt.id].againstVotes = receipt.votes
    /\ proposals[receipt.id].forVotes = 0
    /\ proposals[receipt.id].hasVoted[receipt.sender]

\* C13: createProposal reverts with "Insufficient tokens to create proposal"
\* whenever the caller holds less than PROPOSAL_THRESHOLD, reverts for an
\* empty title, an empty description or a zero duration, and a reverted call
\* adds no proposal id, does not advance the id counter and writes no proposal
C13_CreateRejected ==
    [][ receipt'.fn = "createProposal" =>
          /\ balances[receipt'.sender] < PROPOSAL_THRESHOLD
                => receipt'.status = "Insufficient tokens to create proposal"
          /\ (receipt'.title = "" \/ receipt'.description = "" \/ receipt'.duration = 0)
                => receipt'.status # OK
          /\ receipt'.status # OK
                => UNCHANGED <<proposalIds, proposalIdCounter, proposals>> ]_vars

\* C13 witness: a caller holding tokens, but one less than the threshold,
\* was rejected, and no proposal exists
C13_Witness ==
    /\ receipt.fn = "createProposal"
    /\ receipt.status = "Insufficient tokens to create proposal"
    /\ balances[receipt.sender] = PROPOSAL_THRESHOLD - 1
    /\ receipt.title # ""
    /\ receipt.duration > 0
    /\ proposalIds = <<>>
    /\ proposalIdCounter = 1

\* The voting on proposal p is over: its period has ended, or it has been
\* executed or canceled
VotingOver(p) ==
    /\ ProposalExists(p)
    /\ \/ blockTimestamp > proposals[p].endTime
       \/ proposals[p].executed
       \/ proposals[p].canceled

\* C14: once the voting on a proposal is over every vote on it reverts, the
\* voting stays over, and its forVotes and againstVotes never change again
C14_NoVoteAfterVotingOver ==
    [][ /\ (receipt'.fn = "vote" /\ VotingOver(receipt'.id)) => receipt'.status # OK
        /\ \A p \in 1..MaxProposals :
             VotingOver(p) =>
               /\ VotingOver(p)'
               /\ proposals'[p].forVotes = proposals[p].forVotes
               /\ proposals'[p].againstVotes = proposals[p].againstVotes ]_vars

\* C14 witness: an address that had not voted, and holds tokens, voted after
\* the end of the voting period of a proposal with votes, and was rejected
C14_Witness ==
    /\ receipt.fn = "vote"
    /\ receipt.status = "Voting period ended"
    /\ balances[receipt.sender] > 0
    /\ ~proposals[receipt.id].hasVoted[receipt.sender]
    /\ proposals[receipt.id].forVotes > 0

-----------------------------------------------------------------------------
(* Properties of the wallet connection *)

\* The connectWallet flows in progress
FlowsRunning == {f \in Flows : flowPc[f] \in Running}

\* C15: at most one connectWallet flow is in progress at a time: a call made
\* while another flow is running sends no eth_requestAccounts; and the
\* in-progress flag is set only while a flow is in progress
C15_OneConnectFlow ==
    /\ [][FlowsRunning # {} /\ nflows' # nflows => requestsSent' = requestsSent]_vars
    /\ [](connectingRef => FlowsRunning # {})

\* The debounce timers armed for a key
DebounceTimers(bag, key) ==
    {t \in BagToSet(bag) : t.kind = "debounce" /\ t.key = key}

\* C16: while the breaker is Closed, a call whose method count exceeds its
\* limit and that is neither pending nor freshly cached issues no request at
\* once; after it the one request to come for its key is the one 1500 ms after
\* this call, whatever calls for the key came less than 1500 ms before it
C16_DebounceCoalesces ==
    [][ (ev'.op = "request" /\ ev'.kind = "debounced") =>
          /\ ~circuitBreakerActive
          /\ rpcCallsByType'[MethodOf(ev'.key)] > RPC_LIMITS(MethodOf(ev'.key))
          /\ inflight' = inflight
          /\ \A t \in DebounceTimers(timers', ev'.key) :
                t.due = now + DEBOUNCE_DELAY /\ timers'[t] = 1 ]_vars

\* The timer a call made at `now` arms while the breaker is Open
OpenTimer(key) ==
    IF IsReadMethod(MethodOf(key))
    THEN Timer("throttle", key, now + THROTTLE_DELAY, FALSE)
    ELSE Timer("delay", key, now + OTHER_DELAY, FALSE)

\* The step is one call of window.ethereum.request (lines 92-109 count it)
SingleCall == rpcCallCount' = rpcCallCount + 1 \/ rpcCallCount' = 0

\* C17: while the breaker is Open no call is dropped: a read call without a
\* usable cache entry arms one timer due 3000 ms later, any other method one
\* timer due 1000 ms later; such a timer is never cleared and issues one
\* request when it fires, no earlier than its due time; a successful read
\* stores its result, a call of another method leaves the cache alone
C17_OpenCallsDelayedNotDropped ==
    [][ /\ (ev'.op = "request" /\ circuitBreakerActive /\ SingleCall) =>
             \/ /\ ev'.kind = "cached"
                /\ IsReadMethod(MethodOf(ev'.key))
                /\ HasUsableEntry(requestCache[ev'.key])
             \/ /\ ev'.kind = IF IsReadMethod(MethodOf(ev'.key))
                              THEN "throttled" ELSE "delayed"
                /\ IsReadMethod(MethodOf(ev'.key)) => ~HasUsableEntry(requestCache[ev'.key])
                /\ timers' = timers (+) SetToBag({OpenTimer(ev'.key)})
                /\ inflight' = inflight
                /\ requestCache' = requestCache
        /\ \A t \in BagToSet(timers) :
             (t.kind \in {"throttle", "delay"} /\ CopiesIn(t, timers') < CopiesIn(t, timers)) =>
                /\ t.due <= now
                /\ CopiesIn(t, timers') = CopiesIn(t, timers) - 1
                /\ inflight' = inflight (+) SetToBag({Call(t.key,
                       IF t.kind = "throttle" THEN "throttleRead" ELSE "delayOther")})
                /\ requestCache' = requestCache
        /\ (ev'.op = "resolve" /\ ev'.kind = "throttleRead" /\ Truthy(ev'.value)) =>
             requestCache' = [requestCache EXCEPT ![ev'.key] = Entry(ev'.value, now)]
        /\ (ev'.op \in {"resolve", "reject"} /\ ev'.kind = "delayOther") =>
             requestCache' = requestCache ]_vars

\* A read call throttled while the breaker was Open has resolved, and its
\* result is in the cache
C17_Witness ==
    /\ circuitBreakerActive
    /\ ev.op = "resolve"
    /\ ev.kind = "throttleRead"
    /\ Truthy(ev.value)
    /\ now >= THROTTLE_DELAY + MONITOR_INTERVAL
    /\ requestCache[ev.key] = Entry(ev.value, now)

-----------------------------------------------------------------------------
(* Properties of the proposal fetches *)

\* C21: a retry loop makes at most 3 attempts, starts the second no sooner
\* than 1 s and the third no sooner than 2 s after the failure before it, and
\* gives up (null or a throw) only after the third; the in-progress flags of a
\* fetch are false when it returns
C21_RetriesBounded ==
    /\ [](\A i \in FetchSlots : fetches[i].attempts <= MAX_RETRIES + 1)
    /\ [][ /\ \A i \in FetchSlots :
                (fetches[i].attempts >= 1 /\ fetches'[i].attempts = fetches[i].attempts + 1) =>
                   fetchNow - fetches[i].failedAt >=
                      Pow2(fetches[i].attempts - 1) * RETRY_BASE_DELAY
           /\ (fetchEv'.op = "return" /\ fetchEv'.fetching) =>
                /\ fetchEv'.attempts <= MAX_RETRIES + 1
                /\ (fetchEv'.attempts > 0 /\ fetchEv'.result \in {"null", "thrown"}) =>
                      fetchEv'.attempts = MAX_RETRIES + 1
                /\ IF fetchEv'.kind = "list"
                   THEN ~proposalsFetchingRef' /\ ~refreshInProgressRef'
                   ELSE ~proposalDetailsFetchingRef' ]_vars

\* getProposalById has returned null after three failed attempts, 3 s or more
\* after the first, and its flag is clear
C21_Witness ==
    /\ fetchEv.op = "return"
    /\ fetchEv.kind = "detail"
    /\ fetchEv.attempts = MAX_RETRIES + 1
    /\ fetchEv.result = "null"
    /\ fetchNow >= RetryDelay(0) + RetryDelay(1)
    /\ ~proposalDetailsFetchingRef

-----------------------------------------------------------------------------
(* Properties of the cache cleanup *)

\* C22: each run of the cleanup removes from the request cache exactly the
\* entries older than 3 times the TTL of their method and keeps every other
\* entry as it is, whether the breaker is Open or Closed
C22_SweepRemovesExpired ==
    [][ ev'.op = "sweep" =>
          \A k \in Keys :
             /\ (requestCache[k].present /\
                    requestCache[k].timestamp + 3 * CACHE_TIMES(MethodOf(k)) < now)
                  => ~requestCache'[k].present
             /\ ~(requestCache[k].present /\
                    requestCache[k].timestamp + 3 * CACHE_TIMES(MethodOf(k)) < now)
                  => requestCache'[k] = requestCache[k] ]_vars

\* A cleanup has run with the breaker Open: it removed an entry and kept
\* one whose age is exactly 3 times its TTL
C22_Witness ==
    /\ ev.op = "sweep"
    /\ circuitBreakerActive
    /\ \E k \in Keys : ~requestCache[k].present
    /\ \E k \in Keys :
         /\ requestCache[k].present
         /\ now - requestCache[k].timestamp = 3 * CACHE_TIMES(MethodOf(k))

\* What vote requires of the proposal itself (DAOGovLite.sol lines 139-141)
VoteStillAccepted(raw) ==
    ~raw.executed /\ ~raw.canceled /\ raw.time <= raw.endTime

\* What executeProposal requires (DAOGovLite.sol lines 165-170)
ExecuteWouldSucceed(raw) ==
    /\ ~raw.executed /\ ~raw.canceled /\ raw.time > raw.endTime
    /\ MoreBaseUnits(raw.forVotes, raw.againstVotes)

\* C23: the status the frontend derives for a proposal is 'Active' exactly
\* when the contract would still accept a vote on it and 'Pending' exactly
\* when executeProposal would succeed, and voteOnProposal sends a vote
\* transaction only for a proposal whose derived status is 'Active'.
C23_StatusAgreesWithContract ==
    /\ standardProposal # NoStandardProposal =>
           /\ standardProposal.status = "Active" <=> VoteStillAccepted(rawProposal)
           /\ standardProposal.status = "Pending" <=> ExecuteWouldSucceed(rawProposal)
    /\ voteSubmitted.sent => voteSubmitted.status = "Active"

\* C24: the token's total supply never exceeds MAX_SUPPLY; a mint by anyone
\* but the owner reverts; an owner's mint that would push the supply past
\* the cap reverts with "Exceeds maximum token supply"; a reverted mint
\* leaves every balance and the supply unchanged, and a successful one adds
\* its amount to the supply and to the receiver's balance.
C24_MintCapped ==
    /\ [](totalSupply <= MAX_SUPPLY)
    /\ [][receipt'.fn = "mint" =>
            /\ receipt'.sender # Deployer => receipt'.status # OK
            /\ (receipt'.sender = Deployer /\ totalSupply + receipt'.amount > MAX_SUPPLY)
                   => receipt'.status = "Exceeds maximum token supply"
            /\ receipt'.status # OK => UNCHANGED <<balances, totalSupply>>
            /\ receipt'.status = OK =>
                   /\ totalSupply' = totalSupply + receipt'.amount
                   /\ balances' = [balances EXCEPT ![receipt'.to] = @ + receipt'.amount]]_vars

\* The owner has minted up to the cap and a further mint has reverted
C24_Witness ==
    /\ totalSupply = MAX_SUPPLY
    /\ receipt.fn = "mint"
    /\ receipt.sender = Deployer
    /\ receipt.status = "Exceeds maximum token supply"
    /\ receipt.amount = PROPOSAL_THRESHOLD - 1

\* C25: for every proposal, forVotes + againstVotes never exceeds the
\* token's total supply, whatever transfers and mints happen between the
\* votes of different addresses.
C25_TallyWithinSupply ==
    \A id \in 1..MaxProposals :
        proposals[id].forVotes + proposals[id].againstVotes <= totalSupply

\* C26: no proposal is ever both executed and canceled; once executed (or
\* canceled) is true it stays true under every later call; and canceled
\* becomes true only in a cancelProposal call made by the proposer.
C26_ExecutedXorCanceled ==
    /\ [](\A id \in 1..(MaxProposals + 1) :
              ~(proposals[id].executed /\ proposals[id].canceled))
    /\ [][\A id \in 1..(MaxProposals + 1) :
              /\ proposals[id].executed => proposals'[id].executed
              /\ proposals[id].canceled => proposals'[id].canceled
              /\ (proposals'[id].canceled /\ ~proposals[id].canceled) =>
                     /\ receipt' = Receipt("cancelProposal", proposals[id].proposer, id, OK)
                     /\ proposals[id].proposer # ZeroAddress]_vars

\* The proposer has tried to cancel a proposal that was executed
C26_Witness ==
    /\ proposals[1].executed
    /\ receipt = Receipt("cancelProposal", proposals[1].proposer, 1,
                         "Proposal already executed")

\* The ids 1..n, n being the number of proposals created so far
CreatedIds == [i \in 1..Len(proposalIds) |-> i]

\* C27: proposal ids are assigned consecutively from 1 in creation order.
\* After n successful createProposal calls the id list is <<1, ..., n>>,
\* the next createProposal returns n + 1, getProposals returns the list and
\* getProposalCount returns n; and getProposal, hasVoted, vote,
\* executeProposal and cancelProposal revert with "Proposal does not exist"
\* exactly for the ids outside 1..n, 0 among them.
C27_IdsConsecutive ==
    /\ [](proposalIds = CreatedIds)
    /\ [][/\ (receipt'.fn = "createProposal" /\ receipt'.status = OK) =>
                 /\ receipt'.id = Len(proposalIds) + 1
                 /\ proposalIds' = Append(proposalIds, receipt'.id)
          /\ (receipt'.fn = "createProposal" /\ receipt'.status # OK) =>
                 proposalIds' = proposalIds
          /\ receipt'.fn = "getProposals" => receipt'.result = CreatedIds
          /\ receipt'.fn = "getProposalCount" => receipt'.result = <<Len(proposalIds)>>
          /\ receipt'.fn \in {"getProposal", "hasVoted", "vote", "executeProposal",
                              "cancelProposal"} =>
                 (receipt'.status = "Proposal does not exist"
                      <=> receipt'.id \notin 1..Len(proposalIds))]_vars

\* Two proposals exist, and a call with id 0 has just been turned away
C27_Witness ==
    /\ proposalIds = <<1, 2>>
    /\ receipt.fn = "getProposal"
    /\ receipt.id = 0
    /\ receipt.status = "Proposal does not exist"

\* C28: every promise the interceptor returns eventually settles, given
\* that timers fire and the provider answers; a debounced call superseded by
\* a later one for its key included.  A promise settles only through the
\* timer armed for it and the request that timer issues, so the claim is
\* that no step abandons one: a call that returns an unsettled promise of its
\* own adds one timer or one request and takes none away, a timer goes away
\* only by issuing its request, and a request only by settling its promise.
C28_EveryPromiseSettles ==
    [][ /\ (ev'.op = "request" /\ SingleCall) =>
              /\ ev'.kind \in {"debounced", "throttled", "delayed"} =>
                     /\ BagCardinality(timers') = BagCardinality(timers) + 1
                     /\ inflight' = inflight
              /\ ev'.kind = "issued" =>
                     /\ BagCardinality(inflight') = BagCardinality(inflight) + 1
                     /\ timers' = timers
              /\ ev'.kind \in {"cached", "pending"} =>
                     /\ timers' = timers
                     /\ inflight' = inflight
        /\ ev'.op = "none" =>
              /\ BagCardinality(timers') <= BagCardinality(timers)
              /\ BagCardinality(timers') + BagCardinality(inflight')
                     = BagCardinality(timers) + BagCardinality(inflight)
        /\ ev'.op \in {"resolve", "reject"} =>
              /\ BagCardinality(inflight') = BagCardinality(inflight) - 1
              /\ BagCardinality(timers') = BagCardinality(timers) ]_vars

\* C29: for every mounted component that uses useWeb3, the rpcOverload flag
\* it receives is true exactly when the module-level circuit breaker is Open.
C29_OverloadFlagTracksBreaker ==
    \A h \in Hooks : mounted[h] => (rpcOverload[h] <=> circuitBreakerActive)

\* The timers armed and the provider requests in flight
Backing(t, f) == BagCardinality(t) + BagCardinality(f)

\* C30 as stated: window.ethereum.request is replaced at most once however
\* components mount and unmount, every call adds exactly 1 to rpcCallCount
\* and to rpcCallsByType[method] (a request loop makes 1 or BurstSize calls
\* in one step), and the provider is invoked at most once per call.
C30_CountedOncePerCall ==
    /\ [](patchLayers <= 1)
    /\ [][/\ nreq' # nreq =>
               \E n \in {1, BurstSize} :
                   /\ rpcCallCount' = rpcCallCount + n
                   /\ rpcCallsByType' =
                        [rpcCallsByType EXCEPT ![MethodOf(ev'.key)] = @ + n]
                   /\ Backing(timers', inflight') <= Backing(timers, inflight) + n
          /\ nreq' = nreq =>
               Backing(timers', inflight') <= Backing(timers, inflight)]_vars

\* C30, amended: window.ethereum.request is replaced at most once however
\* components mount, unmount and remount, so each call passes the counting
\* lines once: it adds 1 to rpcCallCount and to rpcCallsByType[method], and,
\* when more than RESET_PERIOD has passed since the last reset, then sets
\* both to 0 and restarts the period, so that the call that ends a period is
\* counted in neither; and the provider is invoked at most once per call.
C30_OneLayerPerCall ==
    /\ [](patchLayers <= 1 /\ (monkeyPatchApplied <=> patchLayers = 1))
    /\ [][/\ nreq' # nreq =>
               \E n \in {1, BurstSize} :
                   /\ IF now - lastRpcReset > RESET_PERIOD
                      THEN /\ rpcCallCount' = n - 1
                           /\ rpcCallsByType' =
                                [m \in Methods |->
                                    IF m = MethodOf(ev'.key) THEN n - 1 ELSE 0]
                           /\ lastRpcReset' = now
                      ELSE /\ rpcCallCount' = rpcCallCount + n
                           /\ rpcCallsByType' =
                                [rpcCallsByType EXCEPT ![MethodOf(ev'.key)] = @ + n]
                           /\ lastRpcReset' = lastRpcReset
                   /\ Backing(timers', inflight') <= Backing(timers, inflight) + n
          /\ nreq' = nreq =>
               Backing(timers', inflight') <= Backing(timers, inflight)]_vars

\* A component has unmounted and mounted again, the provider is patched
\* once, and a single call has just been counted once
C30_Witness ==
    /\ nmount >= 2
    /\ patchLayers = 1
    /\ ev.op = "request"
    /\ ev.kind = "issued"
    /\ rpcCallCount = 1
    /\ BagCardinality(inflight) = 1

=============================================================================
